---- MODULE Spec2Model ----
(***************************************************************************)
(* A model of the geospatial enrichment pipeline and of the GDP choropleth  *)
(* of the map renderer:                                                      *)
(*   - scripts/build_processed.js : the cleaning stage (toNumber, cleaners),  *)
(*     and the unified-dataset builder (parseNumber, distanceKm,             *)
(*     countWithinRadius, buildUnifiedDataset);                              *)
(*   - src/main.js : parseNumber, parseRow, the rank table of                *)
(*     updateGdpLayer, getGdpColorByRank and interpolateColor, the country   *)
(*     resolver (normalizeCountryName, buildCountryNameToCodeMap,            *)
(*     findCountryCode), normalizeRing, and the session: the data load,    *)
(*     the geometry stage with its failures, the GDP layer with its filter   *)
(*     of features, and the controls that change the selected year-month     *)
(*     (slider, play button and its interval timer, updateYearMonth).        *)
(*                                                                           *)
(* JavaScript values are tagged records (JsVal).  Text is a sequence of      *)
(* one-character strings, so that trimming, parsing and formatting are       *)
(* computed and not assumed.  Numbers are exact rationals n/d.  Distances    *)
(* are held in metres.                                                       *)
(***************************************************************************)
EXTENDS Integers, Sequences, FiniteSets, TLC

VARIABLES pIn, pOut,
          origin, points, radiusKm, count,
          rawEq, rawInfra, cleanEq, cleanInfra, unified, unifiedCsv, parsedRows, pc,
          gdpTotal, layerYear, gdpValueToRank,
          rankIn, colorOut,
          recTotal, recPerCapita, nameMaps, nameIn, codeOut, rpc,
          geomIn, geomOut, npc,
          sTotal, sPerCapita, gdpData, sessMaps, countries, normalizeRuns, gdpLayer,
          currentYearMonthIndex, isPlaying, shownYearMonth, spc,
          playInterval, activeTimers, lastEvent, topology, consoleErrors, mapError

parseVars == <<pIn, pOut>>
proxVars == <<origin, points, radiusKm, count>>
pipeVars == <<rawEq, rawInfra, cleanEq, cleanInfra, unified, unifiedCsv, parsedRows, pc>>
rankVars == <<gdpTotal, layerYear, gdpValueToRank>>
colorVars == <<rankIn, colorOut>>
resolveVars == <<recTotal, recPerCapita, nameMaps, nameIn, codeOut, rpc>>
ringVars == <<geomIn, geomOut, npc>>
sessVars == <<sTotal, sPerCapita, gdpData, sessMaps, countries, normalizeRuns, gdpLayer,
              currentYearMonthIndex, isPlaying, shownYearMonth, spc,
              playInterval, activeTimers, lastEvent, topology, consoleErrors, mapError>>
rendererVars == <<resolveVars, ringVars, sessVars>>
vars == <<parseVars, proxVars, pipeVars, rankVars, colorVars, rendererVars>>

-----------------------------------------------------------------------------
(* Bounds of the model.                                                      *)

MaxTextLen == 3
MaxPoints == 2
MaxEq == 1
MaxInfra == 2
MaxGdp == 4
RankPad == 20
MaxTotal == 2
MaxPerCapita == 1
MaxRingLen == 3
MonthsPerYear == 2

-----------------------------------------------------------------------------
(* JavaScript values.                                                        *)

JsVal(t, n, d, s) == [t |-> t, n |-> n, d |-> d, s |-> s]
Num(n) == JsVal("num", n, 1, <<>>)
Frac(n, d) == JsVal("num", n, d, <<>>)
NaN == JsVal("nan", 0, 1, <<>>)
PosInf == JsVal("inf", 1, 1, <<>>)
NegInf == JsVal("inf", -1, 1, <<>>)
Null == JsVal("null", 0, 1, <<>>)
Undefined == JsVal("undefined", 0, 1, <<>>)
Str(s) == JsVal("str", 0, 1, s)
EmptyStr == Str(<<>>)

\* Number.isFinite(x): true only for a number that is neither NaN nor +-Infinity
\* (false for null, undefined and every string, which are not converted).
IsFinite(x) == x.t = "num"

\* a <= b on two JavaScript numbers (every comparison with NaN is false).
LessEq(a, b) ==
  CASE a.t = "nan" \/ b.t = "nan" -> FALSE
    [] a.t = "num" /\ b.t = "num" -> a.n * b.d <= b.n * a.d
    [] a.t = "inf" /\ b.t = "inf" -> a.n <= b.n
    [] a.t = "inf" -> a.n < 0
    [] OTHER -> b.n > 0

\* a < b on two JavaScript numbers.
LessThan(a, b) ==
  CASE a.t = "nan" \/ b.t = "nan" -> FALSE
    [] a.t = "num" /\ b.t = "num" -> a.n * b.d < b.n * a.d
    [] a.t = "inf" /\ b.t = "inf" -> a.n < b.n
    [] a.t = "inf" -> a.n < 0
    [] OTHER -> b.n > 0

-----------------------------------------------------------------------------
(* Text: trimming, String -> Number, Number -> String.                       *)
(* The element "Infinity" stands for that word written out.                  *)

DigitChars == <<"0", "1", "2", "3", "4", "5", "6", "7", "8", "9">>
IsDigit(c) == \E i \in 1..10 : DigitChars[i] = c
DigitVal(c) == (CHOOSE i \in 1..10 : DigitChars[i] = c) - 1

RECURSIVE TrimLeft(_)
TrimLeft(s) == IF s # <<>> /\ Head(s) = " " THEN TrimLeft(Tail(s)) ELSE s

RECURSIVE TrimRight(_)
TrimRight(s) ==
  IF s # <<>> /\ s[Len(s)] = " " THEN TrimRight(SubSeq(s, 1, Len(s) - 1)) ELSE s

\* String.prototype.trim
Trim(s) == TrimRight(TrimLeft(s))

RECURSIVE DecimalValue(_)
DecimalValue(s) ==
  IF s = <<>> THEN 0
  ELSE 10 * DecimalValue(SubSeq(s, 1, Len(s) - 1)) + DigitVal(s[Len(s)])

AllDigits(s) == s # <<>> /\ \A i \in 1..Len(s) : IsDigit(s[i])

\* Number(text): surrounding white space is ignored, the empty text is 0, a
\* signed decimal literal is its value, "Infinity" is infinite, all else NaN.
StringToNumber(s) ==
  LET t == Trim(s)
      signed == t # <<>> /\ Head(t) \in {"-", "+"}
      sign == IF t # <<>> /\ Head(t) = "-" THEN -1 ELSE 1
      body == IF signed THEN Tail(t) ELSE t
  IN  IF t = <<>> THEN Num(0)
      ELSE IF body = <<"Infinity">> THEN JsVal("inf", sign, 1, <<>>)
      ELSE IF AllDigits(body) THEN Num(sign * DecimalValue(body))
      ELSE NaN

RECURSIVE NatToText(_)
NatToText(n) ==
  IF n < 10 THEN <<DigitChars[n + 1]>>
  ELSE NatToText(n \div 10) \o <<DigitChars[(n % 10) + 1]>>

\* String(value) for the values the pipeline formats (integers in the model).
ToText(v) ==
  CASE v.t = "str" -> v.s
    [] v.t = "num" -> IF v.n < 0 THEN <<"-">> \o NatToText(-v.n) ELSE NatToText(v.n)
    [] v.t = "nan" -> <<"NaN">>
    [] v.t = "inf" -> IF v.n < 0 THEN <<"-", "Infinity">> ELSE <<"Infinity">>
    [] v.t = "null" -> <<"null">>
    [] OTHER -> <<"undefined">>

\* Number(value)
ToNumber(v) ==
  CASE v.t = "str" -> StringToNumber(v.s)
    [] v.t = "null" -> Num(0)
    [] v.t = "undefined" -> NaN
    [] OTHER -> v

-----------------------------------------------------------------------------
(* The three numeric-field parsers.                                          *)

\* main.js parseNumber
parseNumberMain(value) ==
  IF value = EmptyStr \/ value = Null \/ value = Undefined THEN Null
  ELSE LET num == ToNumber(value)
       IN  IF IsFinite(num) THEN num ELSE Null

\* build_processed.js parseNumber (the unified-dataset builder)
parseNumber(value) ==
  LET text == IF value = Null \/ value = Undefined THEN <<>> ELSE ToText(value)
      parsed == StringToNumber(Trim(text))
  IN  IF IsFinite(parsed) THEN parsed ELSE NaN

\* build_processed.js toNumber (the cleaner)
toNumber(value) ==
  IF value = EmptyStr \/ value = Null \/ value = Undefined THEN EmptyStr
  ELSE LET parsed == StringToNumber(Trim(ToText(value)))
       IN  IF IsFinite(parsed) THEN parsed ELSE EmptyStr

\* safeNumber
safeNumber(value) == IF IsFinite(value) THEN value ELSE EmptyStr

-----------------------------------------------------------------------------
(* Component 1: a numeric field handed to each of the three parsers.         *)

InChars == {" ", "-", "0", "1", "6", "x", "Infinity"}
Texts(n) == UNION {[1..k -> InChars] : k \in 0..n}
ParserInputs == {Null, Undefined} \cup {Str(s) : s \in Texts(MaxTextLen)}

NoParse == [fn |-> "none", out |-> Null]
IdleParse == pIn = Null /\ pOut = [fn |-> "idle", out |-> Null]

InitParse == pIn \in ParserInputs /\ pOut = NoParse

\* main.js parseNumber applied to the field
ParseNumberMain ==
  /\ pOut = NoParse
  /\ pOut' = [fn |-> "main", out |-> parseNumberMain(pIn)]
  /\ UNCHANGED <<pIn, proxVars, pipeVars, rankVars, colorVars, rendererVars>>

\* the builder's parseNumber applied to the field
ParseNumberBuild ==
  /\ pOut = NoParse
  /\ pOut' = [fn |-> "build", out |-> parseNumber(pIn)]
  /\ UNCHANGED <<pIn, proxVars, pipeVars, rankVars, colorVars, rendererVars>>

\* the cleaner's toNumber applied to the field
ToNumberClean ==
  /\ pOut = NoParse
  /\ pOut' = [fn |-> "clean", out |-> toNumber(pIn)]
  /\ UNCHANGED <<pIn, proxVars, pipeVars, rankVars, colorVars, rendererVars>>

NextParse == ParseNumberMain \/ ParseNumberBuild \/ ToNumberClean

-----------------------------------------------------------------------------
(* Component 2: the proximity enricher.                                      *)

Abs(x) == IF x < 0 THEN -x ELSE x

\* toPoint
toPoint(latitude, longitude) == [latitude |-> latitude, longitude |-> longitude]

\* 6371 * 2 * atan2(sqrt(h), sqrt(1 - h)), in metres (truncated), tabulated over
\* the model's grid: latitudes 0 and 60 degrees, longitudes 0..2 degrees.  The
\* key is <<latitude a, latitude b, |longitude b - longitude a|>>.
HaversineM ==
  (<<0, 0, 0>> :> 0) @@ (<<0, 0, 1>> :> 111194) @@ (<<0, 0, 2>> :> 222389) @@
  (<<0, 60, 0>> :> 6671695) @@ (<<0, 60, 1>> :> 6672255) @@ (<<0, 60, 2>> :> 6673936) @@
  (<<60, 0, 0>> :> 6671695) @@ (<<60, 0, 1>> :> 6672255) @@ (<<60, 0, 2>> :> 6673936) @@
  (<<60, 60, 0>> :> 0) @@ (<<60, 60, 1>> :> 55596) @@ (<<60, 60, 2>> :> 111190)

GridLats == {0, 60}
GridLons == {0, 1, 2}

\* a plausible slip: no guard, the NaN of the arithmetic is returned
distanceKmUnguarded(a, b) ==
  IF \/ ~IsFinite(a.latitude) \/ ~IsFinite(a.longitude)
     \/ ~IsFinite(b.latitude) \/ ~IsFinite(b.longitude)
  THEN NaN
  ELSE Num(HaversineM[<<a.latitude.n, b.latitude.n,
                        Abs(b.longitude.n - a.longitude.n)>>])

\* distanceKm
distanceKm(a, b) ==
  IF \/ ~IsFinite(a.latitude) \/ ~IsFinite(a.longitude)
     \/ ~IsFinite(b.latitude) \/ ~IsFinite(b.longitude)
  THEN PosInf
  ELSE Num(HaversineM[<<a.latitude.n, b.latitude.n,
                        Abs(b.longitude.n - a.longitude.n)>>])

\* a plausible slip: the comparison the wrong way round
WithinRadiusReversed(o, p, r) == LessEq(r, distanceKm(o, p))

\* a plausible slip: an exclusive bound
WithinRadiusExclusive(o, p, r) == LessThan(distanceKm(o, p), r)

\* the test of countWithinRadius's loop body
WithinRadius(o, p, r) == LessEq(distanceKm(o, p), r)

RECURSIVE countLoop(_, _, _, _, _)
countLoop(o, pts, r, i, c) ==
  IF i > Len(pts) THEN c
  ELSE countLoop(o, pts, r, i + 1, IF WithinRadius(o, pts[i], r) THEN c + 1 ELSE c)

\* countWithinRadius
countWithinRadius(o, pts, r) == countLoop(o, pts, r, 1, 0)

\* 100 km, the radius of every call of buildUnifiedDataset
Radius100 == Num(100 * 1000)

ProxPoints ==
  {toPoint(Num(la), Num(lo)) : la \in GridLats, lo \in GridLons}
    \cup {toPoint(NaN, Num(0)), toPoint(Num(60), PosInf), toPoint(Undefined, Undefined)}
Radii == {Num(0), Num(60 * 1000), Radius100, PosInf, NaN}
SeqsUpTo(S, n) == UNION {[1..k -> S] : k \in 0..n}

IdleProx ==
  /\ origin = toPoint(Num(0), Num(0)) /\ points = <<>>
  /\ radiusKm = Num(0) /\ count = Null

InitProx ==
  /\ origin \in ProxPoints
  /\ points \in SeqsUpTo(ProxPoints, MaxPoints)
  /\ radiusKm \in Radii
  /\ count = Undefined

\* one call countWithinRadius(origin, points, radiusKm)
CountWithinRadius ==
  /\ count = Undefined
  /\ count' = Num(countWithinRadius(origin, points, radiusKm))
  /\ UNCHANGED <<origin, points, radiusKm, parseVars, pipeVars, rankVars, colorVars, rendererVars>>

NextProx == CountWithinRadius

-----------------------------------------------------------------------------
(* Component 3: the pipeline raw CSV -> cleaner -> intermediate CSV ->        *)
(* buildUnifiedDataset -> unified CSV -> the renderer's parseRow.  Only the  *)
(* fields that decide coordinates, magnitude and the proximity counts are    *)
(* carried; the GDP rows, which have no coordinates, are in component 4.     *)

Classes == {"airport", "port", "powerplant", "nuclear_plant"}

\* csvFormat writes String(value) for each field (null and undefined as ''),
\* and csvParse reads every field back as text.
CsvField(v) == IF v = Null \/ v = Undefined THEN EmptyStr ELSE Str(ToText(v))

\* safeString
safeString(v) == IF v = Undefined \/ v = Null THEN EmptyStr ELSE Str(ToText(v))

\* `eq_${row.Year}_${row.Month}_${index}`, the Year and Month parts left out
EventId(index) == Str(<<"e", "q", "_">> \o NatToText(index))

RECURSIVE cleanEqFrom(_, _)
cleanEqFrom(rows, i) ==
  IF i > Len(rows) THEN <<>>
  ELSE LET row == rows[i]
           magnitude == toNumber(row.magnitude)
           latitude == toNumber(row.latitude)
           longitude == toNumber(row.longitude)
           skip == \/ ~IsFinite(magnitude) \/ LessThan(magnitude, Num(2))
                   \/ ~IsFinite(latitude) \/ ~IsFinite(longitude)
       IN  (IF skip THEN <<>>
            ELSE <<[event_id |-> EventId(i - 1), magnitude |-> magnitude,
                    latitude |-> latitude, longitude |-> longitude]>>)
           \o cleanEqFrom(rows, i + 1)

\* cleanEarthquakes, up to the rows it hands to writeCsv
cleanEarthquakes(rows) == cleanEqFrom(rows, 1)

RECURSIVE cleanInfraFrom(_, _)
cleanInfraFrom(rows, i) ==
  IF i > Len(rows) THEN <<>>
  ELSE LET row == rows[i]
           latitude == toNumber(row.latitude)
           longitude == toNumber(row.longitude)
       IN  (IF ~IsFinite(latitude) \/ ~IsFinite(longitude) THEN <<>>
            ELSE <<[class |-> row.class, ident |-> row.ident,
                    latitude |-> latitude, longitude |-> longitude]>>)
           \o cleanInfraFrom(rows, i + 1)

\* cleanAirports, cleanPorts, cleanPowerplants, cleanNuclearPlants: the same
\* map and filter, each on the raw file of its class
cleanInfrastructure(rows, class) ==
  cleanInfraFrom(SelectSeq(rows, LAMBDA r : r.class = class), 1)

\* writeCsv of the cleaner followed by readCsv of the builder
EqCsv(rows) ==
  [i \in 1..Len(rows) |->
     [event_id |-> CsvField(rows[i].event_id), magnitude |-> CsvField(rows[i].magnitude),
      latitude |-> CsvField(rows[i].latitude), longitude |-> CsvField(rows[i].longitude)]]

InfraCsv(rows) ==
  [i \in 1..Len(rows) |->
     [class |-> rows[i].class, ident |-> CsvField(rows[i].ident),
      latitude |-> CsvField(rows[i].latitude), longitude |-> CsvField(rows[i].longitude)]]

FiniteCoords(row) == IsFinite(row.latitude) /\ IsFinite(row.longitude)

\* buildUnifiedDataset: the earthquakes read from earthquakes_clean.csv
readEarthquakes(csv) ==
  SelectSeq([i \in 1..Len(csv) |->
               [event_id |-> csv[i].event_id,
                latitude |-> parseNumber(csv[i].latitude),
                longitude |-> parseNumber(csv[i].longitude),
                magnitude |-> parseNumber(csv[i].magnitude)]],
            FiniteCoords)

\* buildUnifiedDataset: the rows read from the clean file of one class
readInfrastructure(csv, class) ==
  SelectSeq([i \in 1..Len(csv) |->
               [class |-> csv[i].class, ident |-> safeString(csv[i].ident),
                latitude |-> parseNumber(csv[i].latitude),
                longitude |-> parseNumber(csv[i].longitude)]],
            LAMBDA r : r.class = class /\ FiniteCoords(r))

\* airportPoints, portPoints, powerplantPoints, nuclearPoints
classPoints(csv, class) ==
  LET rows == readInfrastructure(csv, class)
  IN  [i \in 1..Len(rows) |-> toPoint(rows[i].latitude, rows[i].longitude)]

\* a plausible slip: the ports are counted against the airports' points
earthquakeRowSharedPoints(eq, csv) ==
  LET point == toPoint(eq.latitude, eq.longitude)
  IN  [dataset |-> "earthquake",
       record_id |-> safeString(eq.event_id),
       magnitude |-> safeNumber(eq.magnitude),
       latitude |-> safeNumber(eq.latitude),
       longitude |-> safeNumber(eq.longitude),
       airports_within_100km |->
         Num(countWithinRadius(point, classPoints(csv, "airport"), Radius100)),
       ports_within_100km |->
         Num(countWithinRadius(point, classPoints(csv, "airport"), Radius100)),
       powerplants_within_100km |->
         Num(countWithinRadius(point, classPoints(csv, "powerplant"), Radius100)),
       nuclear_plants_within_100km |->
         Num(countWithinRadius(point, classPoints(csv, "nuclear_plant"), Radius100))]

\* buildUnifiedDataset: the row pushed for one earthquake
earthquakeRow(eq, csv) ==
  LET point == toPoint(eq.latitude, eq.longitude)
  IN  [dataset |-> "earthquake",
       record_id |-> safeString(eq.event_id),
       magnitude |-> safeNumber(eq.magnitude),
       latitude |-> safeNumber(eq.latitude),
       longitude |-> safeNumber(eq.longitude),
       airports_within_100km |->
         Num(countWithinRadius(point, classPoints(csv, "airport"), Radius100)),
       ports_within_100km |->
         Num(countWithinRadius(point, classPoints(csv, "port"), Radius100)),
       powerplants_within_100km |->
         Num(countWithinRadius(point, classPoints(csv, "powerplant"), Radius100)),
       nuclear_plants_within_100km |->
         Num(countWithinRadius(point, classPoints(csv, "nuclear_plant"), Radius100))]

\* buildUnifiedDataset: the row pushed for one airport, port, power plant or
\* nuclear plant
infrastructureRow(row) ==
  [dataset |-> row.class,
   record_id |-> row.ident,
   magnitude |-> EmptyStr,
   latitude |-> safeNumber(row.latitude),
   longitude |-> safeNumber(row.longitude),
   airports_within_100km |-> EmptyStr,
   ports_within_100km |-> EmptyStr,
   powerplants_within_100km |-> EmptyStr,
   nuclear_plants_within_100km |-> EmptyStr]

infrastructureRows(csv, class) ==
  LET rows == readInfrastructure(csv, class)
  IN  [i \in 1..Len(rows) |-> infrastructureRow(rows[i])]

\* buildUnifiedDataset: the rows of `unified`, in the order they are pushed
buildUnifiedDataset(eqCsv, infraCsv) ==
  LET earthquakes == readEarthquakes(eqCsv)
  IN  [i \in 1..Len(earthquakes) |-> earthquakeRow(earthquakes[i], infraCsv)]
      \o infrastructureRows(infraCsv, "airport")
      \o infrastructureRows(infraCsv, "port")
      \o infrastructureRows(infraCsv, "powerplant")
      \o infrastructureRows(infraCsv, "nuclear_plant")

\* writeCsv(unified_dataset.csv) followed by d3.csv(DATA_URL)
UnifiedCsv(rows) ==
  [i \in 1..Len(rows) |->
     [dataset |-> rows[i].dataset,
      record_id |-> CsvField(rows[i].record_id),
      magnitude |-> CsvField(rows[i].magnitude),
      latitude |-> CsvField(rows[i].latitude),
      longitude |-> CsvField(rows[i].longitude),
      airports_within_100km |-> CsvField(rows[i].airports_within_100km),
      ports_within_100km |-> CsvField(rows[i].ports_within_100km),
      powerplants_within_100km |-> CsvField(rows[i].powerplants_within_100km),
      nuclear_plants_within_100km |-> CsvField(rows[i].nuclear_plants_within_100km)]]

MAGNITUDE_THRESHOLD == 2

\* what parseRow returns for a row it rejects
NullRow ==
  [dataset |-> "null", record_id |-> Null, magnitude |-> Null,
   latitude |-> Null, longitude |-> Null,
   airports_within_100km |-> Null, ports_within_100km |-> Null,
   powerplants_within_100km |-> Null, nuclear_plants_within_100km |-> Null]

SpatialDatasets == {"airport", "port", "powerplant", "nuclear_plant", "earthquake"}

\* main.js parseRow
parseRow(row) ==
  LET latitude == parseNumberMain(row.latitude)
      longitude == parseNumberMain(row.longitude)
      parsed ==
        [dataset |-> row.dataset,
         record_id |-> row.record_id,
         magnitude |-> parseNumberMain(row.magnitude),
         latitude |-> latitude,
         longitude |-> longitude,
         airports_within_100km |-> parseNumberMain(row.airports_within_100km),
         ports_within_100km |-> parseNumberMain(row.ports_within_100km),
         powerplants_within_100km |-> parseNumberMain(row.powerplants_within_100km),
         nuclear_plants_within_100km |-> parseNumberMain(row.nuclear_plants_within_100km)]
  IN  IF row.dataset \in SpatialDatasets /\ (latitude = Null \/ longitude = Null)
      THEN NullRow
      ELSE IF /\ row.dataset = "earthquake"
              /\ \/ parsed.magnitude = Null
                 \/ LessEq(parsed.magnitude, Num(MAGNITUDE_THRESHOLD))
      THEN NullRow
      ELSE parsed

\* the raw files the cleaner is given
EqRaw(la, lo, m) == [latitude |-> Str(la), longitude |-> Str(lo), magnitude |-> Str(m)]
EqKinds ==
  {EqRaw(<<"6", "0">>, <<"0">>, <<"6">>), EqRaw(<<"0">>, <<"0">>, <<"6">>),
   EqRaw(<<"x">>, <<"0">>, <<"6">>), EqRaw(<<"6", "0">>, <<"0">>, <<"2">>)}
InfraCoords ==
  {<<<<"6", "0">>, <<"0">>>>, <<<<"6", "0">>, <<"2">>>>,
   <<<<" ">>, <<"0">>>>, <<<<>>, <<"0">>>>}
InfraRaw(c, k) == [class |-> c, latitude |-> Str(k[1]), longitude |-> Str(k[2])]
InfraKinds ==
  {InfraRaw(c, k) : c \in {"airport", "port"}, k \in InfraCoords}
    \cup {InfraRaw(c, <<<<"6", "0">>, <<"0">>>>) : c \in {"powerplant", "nuclear_plant"}}
WithIdent(f) ==
  [i \in 1..Len(f) |->
     [class |-> f[i].class, ident |-> Str(NatToText(i)),
      latitude |-> f[i].latitude, longitude |-> f[i].longitude]]

IdlePipe ==
  /\ rawEq = <<>> /\ rawInfra = <<>> /\ cleanEq = <<>> /\ cleanInfra = <<>>
  /\ unified = <<>> /\ unifiedCsv = <<>> /\ parsedRows = <<>> /\ pc = "idle"

InitPipe ==
  /\ rawEq \in SeqsUpTo(EqKinds, MaxEq)
  /\ rawInfra \in {WithIdent(f) : f \in SeqsUpTo(InfraKinds, MaxInfra)}
  /\ cleanEq = <<>> /\ cleanInfra = <<>>
  /\ unified = <<>> /\ unifiedCsv = <<>> /\ parsedRows = <<>>
  /\ pc = "raw"

\* run() of the cleaning script
RunClean ==
  /\ pc = "raw"
  /\ cleanEq' = EqCsv(cleanEarthquakes(rawEq))
  /\ cleanInfra' = InfraCsv(cleanInfrastructure(rawInfra, "airport")
                            \o cleanInfrastructure(rawInfra, "port")
                            \o cleanInfrastructure(rawInfra, "powerplant")
                            \o cleanInfrastructure(rawInfra, "nuclear_plant"))
  /\ pc' = "cleaned"
  /\ UNCHANGED <<rawEq, rawInfra, unified, unifiedCsv, parsedRows,
                 parseVars, proxVars, rankVars, colorVars, rendererVars>>

\* run() of the build script: buildUnifiedDataset and its writeCsv
RunBuild ==
  /\ pc = "cleaned"
  /\ unified' = buildUnifiedDataset(cleanEq, cleanInfra)
  /\ unifiedCsv' = UnifiedCsv(unified')
  /\ pc' = "built"
  /\ UNCHANGED <<rawEq, rawInfra, cleanEq, cleanInfra, parsedRows,
                 parseVars, proxVars, rankVars, colorVars, rendererVars>>

\* init: rows.map(parseRow).filter(row => row !== null)
LoadRows ==
  /\ pc = "built"
  /\ parsedRows' = SelectSeq([i \in 1..Len(unifiedCsv) |-> parseRow(unifiedCsv[i])],
                             LAMBDA r : r # NullRow)
  /\ pc' = "rendered"
  /\ UNCHANGED <<rawEq, rawInfra, cleanEq, cleanInfra, unified, unifiedCsv,
                 parseVars, proxVars, rankVars, colorVars, rendererVars>>

NextPipe == RunClean \/ RunBuild \/ LoadRows

-----------------------------------------------------------------------------
(* Component 4: the rank table of updateGdpLayer.  A rank is the exact       *)
(* rational n/d of the quotient the code computes in floating point.         *)

RECURSIVE insertSorted(_, _)
insertSorted(x, s) ==
  IF s = <<>> THEN <<x>>
  ELSE IF x < Head(s) THEN <<x>> \o s
  ELSE <<Head(s)>> \o insertSorted(x, Tail(s))

RECURSIVE sortAscending(_)
\* [...values].sort((a, b) => a - b)
sortAscending(s) == IF s = <<>> THEN <<>> ELSE insertSorted(Head(s), sortAscending(Tail(s)))

\* a plausible slip: the year is not compared
gdpValuesAnyYear(rows, year) ==
  LET kept == SelectSeq(rows, LAMBDA r : r.value # Null /\ IsFinite(r.value))
  IN  [i \in 1..Len(kept) |-> kept[i].value.n]

\* updateGdpLayer: gdpValuesForYear
gdpValuesForYear(rows, year) ==
  LET kept == SelectSeq(rows, LAMBDA r : r.year = Num(year) /\ r.value # Null
                                        /\ IsFinite(r.value))
  IN  [i \in 1..Len(kept) |-> kept[i].value.n]

\* updateGdpLayer: valuePositions.get(value), the 0-based indices of the value
valuePositions(sorted, value) ==
  LET idx == SelectSeq([i \in 1..Len(sorted) |-> i], LAMBDA i : sorted[i] = value)
  IN  [k \in 1..Len(idx) |-> idx[k] - 1]

RECURSIVE sumSeq(_)
\* positions.reduce((sum, pos) => sum + pos, 0)
sumSeq(s) == IF s = <<>> THEN 0 ELSE Head(s) + sumSeq(Tail(s))

\* a plausible slip: the mean position is divided by the count, not count - 1
rankOfByCount(positions, totalCountries) ==
  IF totalCountries > 1
  THEN Frac(sumSeq(positions), Len(positions) * totalCountries)
  ELSE Frac(1, 2)

\* a plausible slip: the first position of a tie in place of the mean
rankOfFirstPosition(positions, totalCountries) ==
  IF totalCountries > 1
  THEN Frac(positions[1], totalCountries - 1)
  ELSE Frac(1, 2)

\* updateGdpLayer: avgPosition and rank of one distinct value
rankOf(positions, totalCountries) ==
  IF totalCountries > 1
  THEN Frac(sumSeq(positions), Len(positions) * (totalCountries - 1))
  ELSE Frac(1, 2)

\* updateGdpLayer: gdpValueToRank for a year
rankTable(rows, year) ==
  LET sortedGdpValues == sortAscending(gdpValuesForYear(rows, year))
      keys == {sortedGdpValues[i] : i \in 1..Len(sortedGdpValues)}
  IN  [v \in keys |-> rankOf(valuePositions(sortedGdpValues, v), Len(sortedGdpValues))]

ModelYears == {2019, 2020}
GdpRow(y, v) == [year |-> Num(y), value |-> v]
GdpKinds ==
  {GdpRow(2020, Num(10)), GdpRow(2020, Num(20)), GdpRow(2020, Num(30)),
   GdpRow(2020, Null), GdpRow(2019, Num(20)), GdpRow(2019, Num(40))}

IdleRank == gdpTotal = <<>> /\ layerYear = -1 /\ gdpValueToRank = <<>>

InitRank ==
  /\ gdpTotal \in SeqsUpTo(GdpKinds, MaxGdp)
  /\ layerYear = 0
  /\ gdpValueToRank = <<>>

\* updateGdpLayer(year): the rank table (layerYear is the year of gdpLayer)
UpdateGdpLayer ==
  /\ layerYear >= 0
  /\ \E year \in ModelYears :
       /\ layerYear' = year
       /\ gdpValueToRank' = rankTable(gdpTotal, year)
  /\ UNCHANGED <<gdpTotal, parseVars, proxVars, pipeVars, colorVars, rendererVars>>

NextRank == UpdateGdpLayer

-----------------------------------------------------------------------------
(* Component 5: the gradient.  Stop positions are in hundredths.             *)

HexChars == <<"0", "1", "2", "3", "4", "5", "6", "7", "8", "9",
              "a", "b", "c", "d", "e", "f">>
HexVal(c) == (CHOOSE i \in 1..16 : HexChars[i] = c) - 1

\* parseInt(two hex digits, 16)
parseHex2(c1, c2) == 16 * HexVal(c1) + HexVal(c2)

\* x.toString(16), padded with "0" to two digits
toHex2(x) == IF x < 16 THEN <<"0", HexChars[x + 1]>>
             ELSE <<HexChars[(x \div 16) + 1], HexChars[(x % 16) + 1]>>

\* interpolateColor: hex(color), the text matched against #rrggbb
hexToRgb(color) ==
  [r |-> parseHex2(color[2], color[3]),
   g |-> parseHex2(color[4], color[5]),
   b |-> parseHex2(color[6], color[7])]

\* Math.round(c1 + (c2 - c1) * fn / fd), halves rounded up
roundChannel(c1, c2, fn, fd) == (2 * (c1 * fd + (c2 - c1) * fn) + fd) \div (2 * fd)

\* a plausible slip: Math.floor in place of Math.round
floorChannel(c1, c2, fn, fd) == (c1 * fd + (c2 - c1) * fn) \div fd

\* a plausible slip: the two colours exchanged
interpolateColorSwapped(color1, color2, fn, fd) ==
  LET c1 == hexToRgb(color2)
      c2 == hexToRgb(color1)
  IN  <<"#">> \o toHex2(roundChannel(c1.r, c2.r, fn, fd))
             \o toHex2(roundChannel(c1.g, c2.g, fn, fd))
             \o toHex2(roundChannel(c1.b, c2.b, fn, fd))

\* a plausible slip: the channels truncated
interpolateColorFloor(color1, color2, fn, fd) ==
  LET c1 == hexToRgb(color1)
      c2 == hexToRgb(color2)
  IN  <<"#">> \o toHex2(floorChannel(c1.r, c2.r, fn, fd))
             \o toHex2(floorChannel(c1.g, c2.g, fn, fd))
             \o toHex2(floorChannel(c1.b, c2.b, fn, fd))

\* interpolateColor(color1, color2, factor), factor = fn / fd
interpolateColor(color1, color2, fn, fd) ==
  LET c1 == hexToRgb(color1)
      c2 == hexToRgb(color2)
  IN  <<"#">> \o toHex2(roundChannel(c1.r, c2.r, fn, fd))
             \o toHex2(roundChannel(c1.g, c2.g, fn, fd))
             \o toHex2(roundChannel(c1.b, c2.b, fn, fd))

colorStops ==
  <<[pos |-> 0, color |-> <<"#", "f", "f", "f", "f", "f", "f">>],
    [pos |-> 5, color |-> <<"#", "f", "f", "f", "9", "c", "4">>],
    [pos |-> 10, color |-> <<"#", "f", "f", "f", "5", "9", "d">>],
    [pos |-> 15, color |-> <<"#", "f", "f", "e", "b", "3", "b">>],
    [pos |-> 22, color |-> <<"#", "f", "f", "c", "1", "0", "7">>],
    [pos |-> 30, color |-> <<"#", "f", "f", "9", "8", "0", "0">>],
    [pos |-> 38, color |-> <<"#", "f", "f", "5", "7", "2", "2">>],
    [pos |-> 45, color |-> <<"#", "f", "4", "4", "3", "3", "6">>],
    [pos |-> 52, color |-> <<"#", "e", "9", "1", "e", "6", "3">>],
    [pos |-> 60, color |-> <<"#", "9", "c", "2", "7", "b", "0">>],
    [pos |-> 68, color |-> <<"#", "6", "7", "3", "a", "b", "7">>],
    [pos |-> 75, color |-> <<"#", "3", "f", "5", "1", "b", "5">>],
    [pos |-> 82, color |-> <<"#", "2", "1", "9", "6", "f", "3">>],
    [pos |-> 88, color |-> <<"#", "1", "9", "7", "6", "d", "2">>],
    [pos |-> 93, color |-> <<"#", "0", "d", "4", "7", "a", "1">>],
    [pos |-> 100, color |-> <<"#", "0", "0", "0", "0", "5", "1">>]>>

NoDataColor == <<"#", "d", "1", "d", "5", "d", "b">>

\* Math.min(Math.max(rank, 0), 1)
clampRank(rank) ==
  IF rank.n < 0 THEN Frac(0, 1) ELSE IF rank.n > rank.d THEN Frac(1, 1) ELSE rank

RECURSIVE stopLoop(_, _)
\* the for loop of getGdpColorByRank from index i (1-based) on
stopLoop(normalized, i) ==
  IF i > Len(colorStops) - 1 THEN colorStops[Len(colorStops)].color
  ELSE LET stop1 == colorStops[i]
           stop2 == colorStops[i + 1]
           range == stop2.pos - stop1.pos
       IN  IF /\ 100 * normalized.n >= stop1.pos * normalized.d
              /\ 100 * normalized.n <= stop2.pos * normalized.d
           THEN IF range > 0
                THEN interpolateColor(stop1.color, stop2.color,
                                      100 * normalized.n - stop1.pos * normalized.d,
                                      range * normalized.d)
                ELSE interpolateColor(stop1.color, stop2.color, 0, 1)
           ELSE stopLoop(normalized, i + 1)

\* getGdpColorByRank
getGdpColorByRank(rank) ==
  IF rank = Null \/ rank = Undefined \/ ~IsFinite(rank) THEN NoDataColor
  ELSE stopLoop(clampRank(rank), 1)

\* the ranks tried: a grid of RankDen-ths reaching RankPad steps beyond [0, 1]
\* (on it no channel is an exact half, where the double arithmetic of the code
\* and exact arithmetic could round apart), and every stop position
RankDen == 201
RankInputs ==
  {Null, Undefined, NaN, PosInf, NegInf}
    \cup {Frac(k, RankDen) : k \in (0 - RankPad)..(RankDen + RankPad)}
    \cup {Frac(colorStops[i].pos, 100) : i \in 1..Len(colorStops)}

IdleColor == rankIn = Null /\ colorOut = <<"idle">>

InitColor == rankIn \in RankInputs /\ colorOut = <<>>

\* one call getGdpColorByRank(rankIn)
GetGdpColorByRank ==
  /\ colorOut = <<>>
  /\ colorOut' = getGdpColorByRank(rankIn)
  /\ UNCHANGED <<rankIn, parseVars, proxVars, pipeVars, rankVars, rendererVars>>

NextColor == GetGdpColorByRank

-----------------------------------------------------------------------------
(* Component 6: the country identity resolver of main.js.  A country name   *)
(* is text (a sequence of characters); the alias table nameToCodeMap is the  *)
(* sequence of its entries in insertion order, which is the order of         *)
(* Object.entries for names that are not array indices.                      *)

UpperChars == <<"A", "B", "C", "D", "E", "F", "G", "H", "I", "J", "K", "L", "M",
                "N", "O", "P", "Q", "R", "S", "T", "U", "V", "W", "X", "Y", "Z">>
LowerChars == <<"a", "b", "c", "d", "e", "f", "g", "h", "i", "j", "k", "l", "m",
                "n", "o", "p", "q", "r", "s", "t", "u", "v", "w", "x", "y", "z">>

\* String.prototype.toLowerCase
toLowerCase(s) ==
  [i \in 1..Len(s) |->
     IF \E k \in 1..26 : UpperChars[k] = s[i]
     THEN LowerChars[CHOOSE k \in 1..26 : UpperChars[k] = s[i]]
     ELSE s[i]]

\* the truth value of a JavaScript value in a condition
Truthy(v) ==
  CASE v.t = "str" -> v.s # <<>>
    [] v.t = "num" -> v.n # 0
    [] v.t = "inf" -> TRUE
    [] OTHER -> FALSE

\* normalizeCountryName: the alias dictionary, <<form, canonical name>>
variations == <<
  <<<<"u", "n", "i", "t", "e", "d", " ", "s", "t", "a", "t", "e", "s", " ", "o", "f", " ", "a", "m", "e", "r", "i", "c", "a">>,
    <<"u", "n", "i", "t", "e", "d", " ", "s", "t", "a", "t", "e", "s">>>>,
  <<<<"u", "n", "i", "t", "e", "d", " ", "s", "t", "a", "t", "e", "s">>,
    <<"u", "n", "i", "t", "e", "d", " ", "s", "t", "a", "t", "e", "s">>>>,
  <<<<"u", "s", "a">>,
    <<"u", "n", "i", "t", "e", "d", " ", "s", "t", "a", "t", "e", "s">>>>,
  <<<<"r", "u", "s", "s", "i", "a">>,
    <<"r", "u", "s", "s", "i", "a", "n", " ", "f", "e", "d", "e", "r", "a", "t", "i", "o", "n">>>>,
  <<<<"s", "o", "u", "t", "h", " ", "k", "o", "r", "e", "a">>,
    <<"k", "o", "r", "e", "a", ",", " ", "r", "e", "p", ".">>>>,
  <<<<"n", "o", "r", "t", "h", " ", "k", "o", "r", "e", "a">>,
    <<"k", "o", "r", "e", "a", ",", " ", "d", "e", "m", ".", " ", "p", "e", "o", "p", "l", "e", "'", "s", " ", "r", "e", "p", ".">>>>,
  <<<<"u", "k">>,
    <<"u", "n", "i", "t", "e", "d", " ", "k", "i", "n", "g", "d", "o", "m">>>>,
  <<<<"u", "n", "i", "t", "e", "d", " ", "k", "i", "n", "g", "d", "o", "m">>,
    <<"u", "n", "i", "t", "e", "d", " ", "k", "i", "n", "g", "d", "o", "m">>>>>>

\* a plausible slip: the text is looked up as written, not lower-cased
normalizeCountryNameAsWritten(name) ==
  IF ~Truthy(name) THEN <<>>
  ELSE LET normalized == Trim(name.s)
       IN  IF \E i \in 1..Len(variations) : variations[i][1] = normalized
           THEN variations[CHOOSE i \in 1..Len(variations) : variations[i][1] = normalized][2]
           ELSE normalized

\* normalizeCountryName
normalizeCountryName(name) ==
  IF ~Truthy(name) THEN <<>>
  ELSE LET normalized == Trim(toLowerCase(name.s))
       IN  IF \E i \in 1..Len(variations) : variations[i][1] = normalized
           THEN variations[CHOOSE i \in 1..Len(variations) : variations[i][1] = normalized][2]
           ELSE normalized

\* nameToCodeMap[key]: the code of the entry, undefined when there is none
entryOf(nameToCodeMap, key) ==
  IF \E i \in 1..Len(nameToCodeMap) : nameToCodeMap[i].name = key
  THEN Str(nameToCodeMap[CHOOSE i \in 1..Len(nameToCodeMap) : nameToCodeMap[i].name = key].code)
  ELSE Undefined

\* a plausible slip: a later record overwrites the code of its name
registerLastWins(maps, row) ==
  IF Truthy(row.country) /\ Truthy(row.country_code)
  THEN LET normalizedName == normalizeCountryName(row.country)
           entry == [name |-> normalizedName, code |-> row.country_code.s]
           old == maps.nameToCodeMap
       IN  [nameToCodeMap |->
              IF entryOf(old, normalizedName) = Undefined THEN Append(old, entry)
              ELSE [i \in 1..Len(old) |->
                      IF old[i].name = normalizedName THEN entry ELSE old[i]],
            codeToNameMap |->
              [c \in DOMAIN maps.codeToNameMap \cup {row.country_code.s} |->
                 IF c = row.country_code.s THEN normalizedName
                 ELSE maps.codeToNameMap[c]]]
  ELSE maps

\* buildCountryNameToCodeMap: the body of forEach for one record
register(maps, row) ==
  IF Truthy(row.country) /\ Truthy(row.country_code)
  THEN LET normalizedName == normalizeCountryName(row.country)
       IN  [nameToCodeMap |->
              IF ~Truthy(entryOf(maps.nameToCodeMap, normalizedName))
              THEN Append(maps.nameToCodeMap,
                          [name |-> normalizedName, code |-> row.country_code.s])
              ELSE maps.nameToCodeMap,
            codeToNameMap |->
              [c \in DOMAIN maps.codeToNameMap \cup {row.country_code.s} |->
                 IF c = row.country_code.s THEN normalizedName
                 ELSE maps.codeToNameMap[c]]]
  ELSE maps

RECURSIVE registerAll(_, _)
\* [...gdpTotal, ...gdpPerCapita].forEach
registerAll(rows, maps) ==
  IF rows = <<>> THEN maps ELSE registerAll(Tail(rows), register(maps, Head(rows)))

\* buildCountryNameToCodeMap
buildCountryNameToCodeMap(total, perCapita) ==
  registerAll(total \o perCapita, [nameToCodeMap |-> <<>>, codeToNameMap |-> <<>>])

\* String.prototype.includes
includes(text, part) ==
  \E i \in 0..(Len(text) - Len(part)) : SubSeq(text, i + 1, i + Len(part)) = part

\* findCountryCode: the entries related to the name by containment
related(normalized, nameToCodeMap) ==
  {i \in 1..Len(nameToCodeMap) :
     \/ includes(normalized, nameToCodeMap[i].name)
     \/ includes(nameToCodeMap[i].name, normalized)}

\* a plausible slip: the containment loop runs before the exact lookup
findCountryCodeLoopFirst(topojsonName, nameToCodeMap) ==
  IF ~Truthy(topojsonName) THEN Null
  ELSE LET normalized == normalizeCountryName(topojsonName)
           hits == related(normalized, nameToCodeMap)
       IN  IF hits # {}
           THEN Str(nameToCodeMap[CHOOSE i \in hits : \A j \in hits : i <= j].code)
           ELSE Null

\* a plausible slip: the name itself is returned when nothing matches
findCountryCodeEcho(topojsonName, nameToCodeMap) ==
  IF ~Truthy(topojsonName) THEN Null
  ELSE LET normalized == normalizeCountryName(topojsonName)
           hits == related(normalized, nameToCodeMap)
       IN  IF Truthy(entryOf(nameToCodeMap, normalized))
           THEN entryOf(nameToCodeMap, normalized)
           ELSE IF hits # {}
           THEN Str(nameToCodeMap[CHOOSE i \in hits : \A j \in hits : i <= j].code)
           ELSE Str(normalized)

\* findCountryCode (codeToNameMap is a parameter the function never reads)
findCountryCode(topojsonName, nameToCodeMap) ==
  IF ~Truthy(topojsonName) THEN Null
  ELSE LET normalized == normalizeCountryName(topojsonName)
           hits == related(normalized, nameToCodeMap)
       IN  IF Truthy(entryOf(nameToCodeMap, normalized))
           THEN entryOf(nameToCodeMap, normalized)
           ELSE IF hits # {}
           THEN Str(nameToCodeMap[CHOOSE i \in hits : \A j \in hits : i <= j].code)
           ELSE Null

\* the country and country_code of a GDP row as parseRow leaves them
NameRow(country, code) == [country |-> Str(country), country_code |-> Str(code)]
TotalNameRows ==
  {NameRow(<<"U", "n", "i", "t", "e", "d", " ", "S", "t", "a", "t", "e", "s">>, <<"U", "S", "A">>),
   NameRow(<<"U", "S", "A">>, <<"U", "S", "2">>),
   NameRow(<<"K", "o", "r", "e", "a", ",", " ", "R", "e", "p", ".">>, <<"K", "O", "R">>),
   NameRow(<<" ">>, <<"B", "L", "K">>),
   NameRow(<<>>, <<"E", "M", "P">>)}
PerCapitaNameRows ==
  {NameRow(<<"U", "n", "i", "t", "e", "d", " ", "S", "t", "a", "t", "e", "s", " ", "o", "f", " ", "A", "m", "e", "r", "i", "c", "a">>, <<"U", "S", "3">>),
   NameRow(<<"C", "h", "a", "d">>, <<>>),
   NameRow(<<"K", "o", "r", "e", "a">>, <<"K", "X", "X">>)}

\* the names asked for: text, null (no name) and undefined
QueryNames ==
  {Null, Undefined, Str(<<" ">>),
   Str(<<>>),
   Str(<<"U", "S", "A">>),
   Str(<<" ", "u", "s", "a", " ">>),
   Str(<<"U", "n", "i", "t", "e", "d", " ", "S", "t", "a", "t", "e", "s", " ", "o", "f", " ", "A", "m", "e", "r", "i", "c", "a">>),
   Str(<<"u", "n", "i", "t", "e", "d", " ", "s", "t", "a", "t", "e", "s">>),
   Str(<<"U", "N", "I", "T", "E", "D", " ", "S", "T", "A", "T", "E", "S", " ">>),
   Str(<<"S", "o", "u", "t", "h", " ", "K", "o", "r", "e", "a">>),
   Str(<<"K", "o", "r", "e", "a">>),
   Str(<<"S", "t", "a", "t", "e", "s">>),
   Str(<<"C", "h", "a", "d">>)}

NoMaps == [nameToCodeMap |-> <<>>, codeToNameMap |-> <<>>]

IdleResolve ==
  /\ recTotal = <<>> /\ recPerCapita = <<>> /\ nameMaps = NoMaps
  /\ nameIn = Null /\ codeOut = Null /\ rpc = "idle"

InitResolve ==
  /\ recTotal \in SeqsUpTo(TotalNameRows, MaxTotal)
  /\ recPerCapita \in SeqsUpTo(PerCapitaNameRows, MaxPerCapita)
  /\ nameMaps = NoMaps
  /\ nameIn = Null /\ codeOut = Null /\ rpc = "loaded"

\* buildCountryNameToCodeMap(gdpTotal, gdpPerCapita)
BuildCountryNameToCodeMap ==
  /\ rpc = "loaded"
  /\ nameMaps' = buildCountryNameToCodeMap(recTotal, recPerCapita)
  /\ rpc' = "built"
  /\ UNCHANGED <<recTotal, recPerCapita, nameIn, codeOut>>
  /\ UNCHANGED <<parseVars, proxVars, pipeVars, rankVars, colorVars, ringVars, sessVars>>

\* one call findCountryCode(name, nameToCodeMap, codeToNameMap)
FindCountryCode ==
  /\ rpc = "built"
  /\ \E name \in QueryNames :
       /\ nameIn' = name
       /\ codeOut' = findCountryCode(name, nameMaps.nameToCodeMap)
  /\ rpc' = "found"
  /\ UNCHANGED <<recTotal, recPerCapita, nameMaps>>
  /\ UNCHANGED <<parseVars, proxVars, pipeVars, rankVars, colorVars, ringVars, sessVars>>

NextResolve == BuildCountryNameToCodeMap \/ FindCountryCode

-----------------------------------------------------------------------------
(* Component 7: the antimeridian normalizer applied to every feature when    *)
(* the topology is loaded.  A coordinate is <<longitude, latitude>> in whole *)
(* degrees; a ring is a sequence of coordinates.                             *)

minOf(s) == CHOOSE x \in {s[i] : i \in 1..Len(s)} : \A i \in 1..Len(s) : x <= s[i]
maxOf(s) == CHOOSE x \in {s[i] : i \in 1..Len(s)} : \A i \in 1..Len(s) : x >= s[i]

\* normalizeRing: crossesDateline
crossesDateline(ring) ==
  LET lons == [i \in 1..Len(ring) |-> ring[i][1]]
      hasNegative == \E i \in 1..Len(lons) : lons[i] < -100
      hasPositive == \E i \in 1..Len(lons) : lons[i] > 100
  IN  hasNegative /\ hasPositive /\ (maxOf(lons) - minOf(lons) > 180)

\* a plausible slip: the shift by 360 without the clamp to 180
shiftLonUnclamped(lon) == IF lon < 0 THEN lon + 360 ELSE lon

\* normalizeRing: the longitude of a coordinate of a dateline-crossing ring
shiftLon(lon) ==
  LET shifted == IF lon < 0 THEN lon + 360 ELSE lon
      clamped == IF shifted > 180 THEN 180 ELSE shifted
  IN  IF clamped > 180 THEN clamped - 360 ELSE clamped

RECURSIVE wrapDown(_)
\* while (lon > 180) lon -= 360
wrapDown(lon) == IF lon > 180 THEN wrapDown(lon - 360) ELSE lon

RECURSIVE wrapUp(_)
\* while (lon < -180) lon += 360
wrapUp(lon) == IF lon < -180 THEN wrapUp(lon + 360) ELSE lon

\* normalizeRing: the longitude of a coordinate of any other ring
wrapLon(lon) == wrapUp(wrapDown(lon))

\* a plausible slip: a crossing ring is wrapped and not clamped
normalizeRingWrapOnly(ring) ==
  [i \in 1..Len(ring) |-> <<wrapLon(ring[i][1]), ring[i][2]>>]

\* a plausible slip: one shift of 360 in place of the loops
normalizeRingOneShift(ring) ==
  IF crossesDateline(ring)
  THEN [i \in 1..Len(ring) |-> <<shiftLon(ring[i][1]), ring[i][2]>>]
  ELSE [i \in 1..Len(ring) |->
          <<IF ring[i][1] > 180 THEN ring[i][1] - 360
            ELSE IF ring[i][1] < -180 THEN ring[i][1] + 360
            ELSE ring[i][1], ring[i][2]>>]

\* a plausible slip: every ring is treated as dateline-crossing
normalizeRingAlwaysShift(ring) ==
  [i \in 1..Len(ring) |-> <<shiftLon(ring[i][1]), ring[i][2]>>]

\* a plausible slip: the ring is closed by repeating its first coordinate
normalizeRingClosed(ring) ==
  LET out == IF crossesDateline(ring)
             THEN [i \in 1..Len(ring) |-> <<shiftLon(ring[i][1]), ring[i][2]>>]
             ELSE [i \in 1..Len(ring) |-> <<wrapLon(ring[i][1]), ring[i][2]>>]
  IN  IF out = <<>> THEN out ELSE Append(out, out[1])

\* normalizeRing
normalizeRing(ring) ==
  IF crossesDateline(ring)
  THEN [i \in 1..Len(ring) |-> <<shiftLon(ring[i][1]), ring[i][2]>>]
  ELSE [i \in 1..Len(ring) |-> <<wrapLon(ring[i][1]), ring[i][2]>>]

\* a plausible slip: the rings of a MultiPolygon are left as they are
normalizeGeometryPolygonOnly(geometry) ==
  IF geometry.type = "Polygon"
  THEN [geometry EXCEPT !.coordinates =
          [r \in 1..Len(geometry.coordinates) |-> normalizeRing(geometry.coordinates[r])]]
  ELSE geometry

\* the geometry of a feature after the forEach body: Polygon and MultiPolygon
\* coordinates are replaced, any other geometry is left as it is
normalizeGeometry(geometry) ==
  IF geometry.type = "Polygon"
  THEN [geometry EXCEPT !.coordinates =
          [r \in 1..Len(geometry.coordinates) |-> normalizeRing(geometry.coordinates[r])]]
  ELSE IF geometry.type = "MultiPolygon"
  THEN [geometry EXCEPT !.coordinates =
          [p \in 1..Len(geometry.coordinates) |->
             [r \in 1..Len(geometry.coordinates[p]) |->
                normalizeRing(geometry.coordinates[p][r])]]]
  ELSE geometry

\* the longitudes of the model, each with a latitude of its own
ModelLons == {-550, -190, -175, -170, -100, 100, 170, 190, 550}
ModelCoords == {<<lon, lon \div 10>> : lon \in ModelLons}
ModelRings == SeqsUpTo(ModelCoords, MaxRingLen)

OverflowRing == <<<<10, 1>>, <<20, 2>>, <<190, 19>>>>
CrossingRing == <<<<-170, -17>>, <<170, 17>>, <<-175, -18>>>>

\* the geometries a feature of the topology can have, around one ring
GeometriesOf(ring) ==
  {[type |-> "Polygon", coordinates |-> <<ring>>],
   [type |-> "Polygon", coordinates |-> <<ring, OverflowRing>>],
   [type |-> "MultiPolygon", coordinates |-> <<<<ring>>, <<CrossingRing, OverflowRing>>, <<OverflowRing>>>>],
   [type |-> "MultiLineString", coordinates |-> <<ring>>]}

NoGeometry == [type |-> "none", coordinates |-> <<>>]

IdleRing == geomIn = NoGeometry /\ geomOut = NoGeometry /\ npc = "idle"

InitRing ==
  /\ geomIn \in UNION {GeometriesOf(ring) : ring \in ModelRings}
  /\ geomOut = NoGeometry
  /\ npc = "loaded"

\* the forEach body of the topology loader for one feature
NormalizeFeature ==
  /\ npc = "loaded"
  /\ geomOut' = normalizeGeometry(geomIn)
  /\ npc' = "normalized"
  /\ UNCHANGED geomIn
  /\ UNCHANGED <<parseVars, proxVars, pipeVars, rankVars, colorVars, resolveVars, sessVars>>

NextRing == NormalizeFeature

-----------------------------------------------------------------------------
(* Component 8: the renderer session: the data load, the topology load that *)
(* installs the GDP layer, and the controls that change the selected        *)
(* year-month (slider, play button, play timer, window.updateYearMonth).     *)

YearSeq == <<2019, 2020>>

\* String(month).padStart(2, '0')
padStart2(month) ==
  IF month < 10 THEN <<"0">> \o NatToText(month) ELSE NatToText(month)

\* `${year}-${String(month).padStart(2, '0')}`
yearMonthKeyOf(year, month) == NatToText(year) \o <<"-">> \o padStart2(month)

\* allYearMonths: every month of every year, in order
availableYearMonths ==
  [i \in 1..(Len(YearSeq) * MonthsPerYear) |->
     yearMonthKeyOf(YearSeq[((i - 1) \div MonthsPerYear) + 1], ((i - 1) % MonthsPerYear) + 1)]

defaultYearMonth == availableYearMonths[Len(availableYearMonths)]

\* availableYearMonths.indexOf(key), 0-based, -1 when absent
indexOf(key) ==
  IF \E i \in 1..Len(availableYearMonths) : availableYearMonths[i] = key
  THEN (CHOOSE i \in 1..Len(availableYearMonths) : availableYearMonths[i] = key) - 1
  ELSE -1

\* parseInt(yearMonthKey.split('-')[0])
yearOfKey(key) ==
  LET dash == CHOOSE i \in 1..Len(key) : key[i] = "-" /\ \A j \in 1..(i - 1) : key[j] # "-"
  IN  DecimalValue(SubSeq(key, 1, dash - 1))

\* `${row.country_code}_${row.year}`
gdpKeyOf(code, year) == ToText(code) \o <<"_">> \o ToText(year)

NoGdp == [total |-> Undefined, perCapita |-> Undefined]

\* gdpData[key][field] = value, the entry being created when it is missing
setGdp(data, key, field, value) ==
  [k \in DOMAIN data \cup {key} |->
     IF k = key
     THEN [(IF key \in DOMAIN data THEN data[key] ELSE NoGdp) EXCEPT ![field] = value]
     ELSE data[k]]

RECURSIVE setAll(_, _, _)
setAll(rows, field, data) ==
  IF rows = <<>> THEN data
  ELSE setAll(Tail(rows), field,
              setGdp(data, gdpKeyOf(Head(rows).country_code, Head(rows).year),
                     field, Head(rows).value))

\* gdpData: the totals, then the per-capita values
buildGdpData(total, perCapita) ==
  setAll(perCapita, "perCapita", setAll(total, "total", <<>>))

\* getCountryName
getCountryName(properties) ==
  IF Truthy(properties.name) THEN properties.name
  ELSE IF Truthy(properties.NAME) THEN properties.NAME
  ELSE IF Truthy(properties.NAME_LONG) THEN properties.NAME_LONG
  ELSE IF Truthy(properties.NAME_EN) THEN properties.NAME_EN
  ELSE IF Truthy(properties.ADMIN) THEN properties.ADMIN
  ELSE EmptyStr

HighOpacity == 95
LowOpacity == 20

\* updateGdpLayer: the style of one feature (fillColor and fillOpacity; the
\* stroke colour, weight and opacity are the same for every feature)
styleOf(feature, year, ranks, data, nameToCodeMap) ==
  LET countryName == getCountryName(feature.properties)
      countryCode == findCountryCode(countryName, nameToCodeMap)
      gdpKey == IF Truthy(countryCode) THEN Str(gdpKeyOf(countryCode, Num(year))) ELSE Null
      found == Truthy(gdpKey) /\ gdpKey.s \in DOMAIN data
      value == IF found THEN data[gdpKey.s].total ELSE Null
      rank == IF value # Null /\ IsFinite(value) /\ value.n \in DOMAIN ranks
              THEN ranks[value.n] ELSE Null
  IN  [fillColor |-> getGdpColorByRank(rank),
       fillOpacity |-> IF value # Null THEN HighOpacity ELSE LowOpacity]

\* updateGdpLayer: every longitude of the geometry is in [-180, 180]
validLons(geometry) ==
  IF geometry.type = "Polygon"
  THEN \A r \in 1..Len(geometry.coordinates) :
         \A i \in 1..Len(geometry.coordinates[r]) :
            /\ geometry.coordinates[r][i][1] >= -180
            /\ geometry.coordinates[r][i][1] <= 180
  ELSE \A p \in 1..Len(geometry.coordinates) :
         \A r \in 1..Len(geometry.coordinates[p]) :
            \A i \in 1..Len(geometry.coordinates[p][r]) :
               /\ geometry.coordinates[p][r][i][1] >= -180
               /\ geometry.coordinates[p][r][i][1] <= 180

\* a plausible slip: the filter tests the presence of the geometry only
validCountryHasGeometry(feature) == feature.geometry # NoGeometry

\* updateGdpLayer: the filter of validCountries
validCountry(feature) ==
  IF feature.geometry = NoGeometry THEN FALSE
  ELSE validLons(feature.geometry)

\* updateGdpLayer(year): the layer that replaces gdpLayer, L.geoJSON of the
\* valid features with the style of each
updateGdpLayer(year, total, data, nameToCodeMap, features) ==
  LET ranks == rankTable(total, year)
      validCountries == SelectSeq(features, validCountry)
  IN  [year |-> year,
       gdpValueToRank |-> ranks,
       features |-> validCountries,
       styles |-> [i \in 1..Len(validCountries) |->
                     styleOf(validCountries[i], year, ranks, data, nameToCodeMap)]]

\* a plausible slip: the layer is left as it is when the year-month changes
gdpLayerKept(installed, layer, year, total, data, nameToCodeMap, features) == layer

\* updateYearMonth: if (window.updateGdpLayer) window.updateGdpLayer(year)
gdpLayerAfter(installed, layer, year, total, data, nameToCodeMap, features) ==
  IF installed THEN updateGdpLayer(year, total, data, nameToCodeMap, features)
  ELSE layer

\* the filter that removes Antarctica from the features
notAntarctica(feature) ==
  LET countryName == toLowerCase(getCountryName(feature.properties).s)
  IN  /\ ~includes(countryName, <<"a", "n", "t", "a", "r", "c", "t", "i", "c", "a">>)
      /\ ~includes(countryName, <<"a", "n", "t", "a", "r", "t", "i", "c", "a">>)

SessRow(country, code, year, value) ==
  [country |-> Str(country), country_code |-> Str(code), year |-> Num(year), value |-> value]

TotalKinds ==
  {SessRow(<<"U", "n", "i", "t", "e", "d", " ", "S", "t", "a", "t", "e", "s">>, <<"U", "S", "A">>, 2020, Num(30)),
   SessRow(<<"U", "n", "i", "t", "e", "d", " ", "S", "t", "a", "t", "e", "s">>, <<"U", "S", "A">>, 2019, Num(20)),
   SessRow(<<"C", "h", "a", "d">>, <<"T", "C", "D">>, 2019, Null)}

PerCapitaKinds ==
  {SessRow(<<"P", "e", "r", "u">>, <<"P", "E", "R">>, 2020, Num(7))}

Properties(name, longName) ==
  [name |-> name, NAME |-> Undefined, NAME_LONG |-> longName,
   NAME_EN |-> Undefined, ADMIN |-> Undefined]

\* a dateline-crossing ring with a longitude that the shift by 360 leaves
\* below -180
FarRing == <<<<-550, -55>>, <<170, 17>>>>

\* the features of the topology of the model: the last three are a feature
\* with a longitude outside [-180, 180] after normalization, a feature without
\* geometry, and Antarctica
TopologyFeatures ==
  <<[properties |-> Properties(Str(<<"U", "n", "i", "t", "e", "d", " ", "S", "t", "a", "t", "e", "s", " ", "o", "f", " ", "A", "m", "e", "r", "i", "c", "a">>), Undefined),
     geometry |-> [type |-> "MultiPolygon",
                   coordinates |-> <<<<CrossingRing>>, <<OverflowRing>>>>]],
    [properties |-> Properties(Str(<<"C", "h", "a", "d">>), Undefined),
     geometry |-> [type |-> "Polygon", coordinates |-> <<OverflowRing>>]],
    [properties |-> Properties(Undefined, Str(<<"P", "e", "r", "u">>)),
     geometry |-> [type |-> "Polygon", coordinates |-> <<CrossingRing>>]],
    [properties |-> Properties(Undefined, Undefined),
     geometry |-> [type |-> "Polygon", coordinates |-> <<OverflowRing>>]],
    [properties |-> Properties(Str(<<"F", "i", "j", "i">>), Undefined),
     geometry |-> [type |-> "Polygon", coordinates |-> <<OverflowRing, FarRing>>]],
    [properties |-> Properties(Str(<<"N", "i", "u", "e">>), Undefined),
     geometry |-> NoGeometry],
    [properties |-> Properties(Str(<<"A", "n", "t", "a", "r", "c", "t", "i", "c", "a">>), Undefined),
     geometry |-> [type |-> "Polygon", coordinates |-> <<CrossingRing>>]]>>

NoLayer == [year |-> 0, gdpValueToRank |-> <<>>, features |-> <<>>, styles |-> <<>>]

\* what the topology request delivers: a topology with the countries object,
\* one without it, or a rejection
Topologies == {"countries", "noCountries", "rejected"}

\* the last handler that ran and the index it was given (-1 when it has none)
Event(kind, index) == [kind |-> kind, index |-> index]

\* setInterval: the id of the new timer, one that no active timer has (an id
\* is a positive number; playInterval = null is written 0)
setInterval(active) ==
  CHOOSE id \in 1..(Cardinality(active) + 1) :
    id \notin active /\ \A m \in 1..(id - 1) : m \in active

\* isPlaying, playInterval and the timers that setInterval has started and
\* clearInterval has not cleared
Player(playing, interval, active) ==
  [isPlaying |-> playing, playInterval |-> interval, activeTimers |-> active]

\* startPlaying
startPlaying(p) ==
  IF p.isPlaying THEN p
  ELSE LET id == setInterval(p.activeTimers)
       IN  Player(TRUE, id, p.activeTimers \cup {id})

\* a plausible slip: playInterval is reset without clearInterval
stopPlayingKeepsTimer(p) ==
  IF ~p.isPlaying THEN p ELSE Player(FALSE, 0, p.activeTimers)

\* stopPlaying
stopPlaying(p) ==
  IF ~p.isPlaying THEN p
  ELSE IF p.playInterval # 0
  THEN Player(FALSE, 0, p.activeTimers \ {p.playInterval})
  ELSE Player(FALSE, p.playInterval, p.activeTimers)

\* togglePlay
togglePlay(p) == IF p.isPlaying THEN stopPlaying(p) ELSE startPlaying(p)

\* a plausible slip: the index after the last is not taken back to 0
nextIndexNoWrap(index) == index + 1

\* the callback of the interval: the index it gives to updateYearMonth
nextIndexOf(index) ==
  IF index + 1 >= Len(availableYearMonths) THEN 0 ELSE index + 1

\* a plausible slip: the topology callback leaves the selected index as it is
syncIndexKept(index, defaultIndex) == index

\* the end of the topology callback: window.updateYearMonth(defaultIndex) when
\* defaultIndex >= 0
syncIndex(index, defaultIndex) ==
  IF defaultIndex >= 0 THEN defaultIndex ELSE index

IdleSess ==
  /\ sTotal = <<>> /\ sPerCapita = <<>> /\ gdpData = <<>> /\ sessMaps = NoMaps
  /\ countries = <<>> /\ normalizeRuns = 0 /\ gdpLayer = NoLayer
  /\ currentYearMonthIndex = -1 /\ isPlaying = FALSE /\ shownYearMonth = <<>>
  /\ playInterval = 0 /\ activeTimers = {} /\ lastEvent = Event("none", -1)
  /\ topology = "countries" /\ consoleErrors = {} /\ mapError = FALSE
  /\ spc = "idle"

InitSess ==
  /\ sTotal \in SeqsUpTo(TotalKinds, MaxTotal)
  /\ sPerCapita \in SeqsUpTo(PerCapitaKinds, MaxPerCapita)
  /\ topology \in Topologies
  /\ gdpData = <<>> /\ sessMaps = NoMaps
  /\ countries = <<>> /\ normalizeRuns = 0 /\ gdpLayer = NoLayer
  /\ currentYearMonthIndex = -1 /\ isPlaying = FALSE /\ shownYearMonth = <<>>
  /\ playInterval = 0 /\ activeTimers = {} /\ lastEvent = Event("none", -1)
  /\ consoleErrors = {} /\ mapError = FALSE
  /\ spc = "start"

otherThanSess == <<parseVars, proxVars, pipeVars, rankVars, colorVars, resolveVars, ringVars>>

\* the inputs of the session and the state of the geometry stage
sessInputs == <<sTotal, sPerCapita, topology>>
geometryVars == <<sessMaps, countries, normalizeRuns>>
playerVars == <<isPlaying, playInterval, activeTimers>>
errorVars == <<consoleErrors, mapError>>

\* the session has its controls: the data is loaded, the geometry stage has
\* not run yet, has installed the GDP layer, or has given up
Controls == spc \in {"data", "map", "nomap"}

\* the d3.csv callback: gdpData, the year-months, the first display of the
\* default year-month, and the controls
LoadData ==
  /\ spc = "start"
  /\ gdpData' = buildGdpData(sTotal, sPerCapita)
  /\ shownYearMonth' = defaultYearMonth
  /\ currentYearMonthIndex' =
       IF indexOf(defaultYearMonth) = -1 THEN Len(availableYearMonths) - 1
       ELSE indexOf(defaultYearMonth)
  /\ isPlaying' = FALSE /\ playInterval' = 0 /\ activeTimers' = {}
  /\ lastEvent' = Event("load", -1)
  /\ spc' = "data"
  /\ UNCHANGED <<sessInputs, geometryVars, gdpLayer, errorVars>>
  /\ UNCHANGED otherThanSess

\* the catch of the d3.csv chain: the error is logged and replaces the map
LoadDataFails ==
  /\ spc = "start"
  /\ consoleErrors' = consoleErrors \cup {"Unable to load map data:"}
  /\ mapError' = TRUE
  /\ lastEvent' = Event("loadError", -1)
  /\ spc' = "failed"
  /\ UNCHANGED <<sessInputs, gdpData, geometryVars, gdpLayer, currentYearMonthIndex,
                 shownYearMonth, playerVars>>
  /\ UNCHANGED otherThanSess

\* updateYearMonth(index)
UpdateYearMonth(index) ==
  IF index < 0 \/ index >= Len(availableYearMonths)
  THEN UNCHANGED <<currentYearMonthIndex, gdpLayer, shownYearMonth>>
  ELSE LET yearMonthKey == availableYearMonths[index + 1]
           year == yearOfKey(yearMonthKey)
       IN  /\ currentYearMonthIndex' = index
           /\ gdpLayer' = gdpLayerAfter(spc = "map", gdpLayer, year, sTotal, gdpData,
                                        sessMaps.nameToCodeMap, countries)
           /\ shownYearMonth' = yearMonthKey

\* the d3.json callback: the rings are normalized, Antarctica is removed, the
\* alias table is built, updateGdpLayer is installed and run for the default
\* year, and window.updateYearMonth(defaultIndex) runs it once more
LoadTopology ==
  /\ spc = "data" /\ topology = "countries"
  /\ LET normalized ==
           [i \in 1..Len(TopologyFeatures) |->
              [TopologyFeatures[i] EXCEPT
                 !.geometry = normalizeGeometry(TopologyFeatures[i].geometry)]]
         kept == SelectSeq(normalized, notAntarctica)
         maps == buildCountryNameToCodeMap(sTotal, sPerCapita)
         defaultIndex == indexOf(defaultYearMonth)
         index == syncIndex(currentYearMonthIndex, defaultIndex)
     IN  /\ countries' = kept
         /\ normalizeRuns' = normalizeRuns + 1
         /\ sessMaps' = maps
         /\ gdpLayer' = updateGdpLayer(yearOfKey(defaultYearMonth), sTotal, gdpData,
                                       maps.nameToCodeMap, kept)
         /\ currentYearMonthIndex' = index
         /\ shownYearMonth' =
              IF index # currentYearMonthIndex THEN availableYearMonths[index + 1]
              ELSE shownYearMonth
  /\ lastEvent' = Event("topology", -1)
  /\ spc' = "map"
  /\ UNCHANGED <<sessInputs, gdpData, playerVars, errorVars>>
  /\ UNCHANGED otherThanSess

\* the d3.json callback when topology.objects.countries is missing: the error
\* is logged and the callback returns
LoadTopologyWithoutCountries ==
  /\ spc = "data" /\ topology = "noCountries"
  /\ consoleErrors' = consoleErrors \cup {"No 'countries' object found in TopoJSON."}
  /\ lastEvent' = Event("topology", -1)
  /\ spc' = "nomap"
  /\ UNCHANGED <<sessInputs, gdpData, geometryVars, gdpLayer, currentYearMonthIndex,
                 shownYearMonth, playerVars, mapError>>
  /\ UNCHANGED otherThanSess

\* the catch of d3.json: the error is logged
LoadTopologyRejected ==
  /\ spc = "data" /\ topology = "rejected"
  /\ consoleErrors' = consoleErrors \cup {"Unable to load TopoJSON:"}
  /\ lastEvent' = Event("topology", -1)
  /\ spc' = "nomap"
  /\ UNCHANGED <<sessInputs, gdpData, geometryVars, gdpLayer, currentYearMonthIndex,
                 shownYearMonth, playerVars, mapError>>
  /\ UNCHANGED otherThanSess

\* the "input" listener of the slider: stopPlaying(), updateYearMonth(index)
SliderInput ==
  /\ Controls
  /\ \E index \in 0..(Len(availableYearMonths) - 1) :
       /\ UpdateYearMonth(index)
       /\ lastEvent' = Event("slider", index)
  /\ LET p == stopPlaying(Player(isPlaying, playInterval, activeTimers))
     IN  /\ isPlaying' = p.isPlaying
         /\ playInterval' = p.playInterval
         /\ activeTimers' = p.activeTimers
  /\ UNCHANGED <<sessInputs, gdpData, geometryVars, errorVars, spc>>
  /\ UNCHANGED otherThanSess

\* the click listener of the play button: togglePlay()
TogglePlay ==
  /\ Controls
  /\ LET p == togglePlay(Player(isPlaying, playInterval, activeTimers))
     IN  /\ isPlaying' = p.isPlaying
         /\ playInterval' = p.playInterval
         /\ activeTimers' = p.activeTimers
  /\ lastEvent' = Event("toggle", -1)
  /\ UNCHANGED <<sessInputs, gdpData, geometryVars, errorVars, spc,
                 gdpLayer, currentYearMonthIndex, shownYearMonth>>
  /\ UNCHANGED otherThanSess

\* one tick of an active interval timer
PlayTick ==
  /\ Controls
  /\ activeTimers # {}
  /\ UpdateYearMonth(nextIndexOf(currentYearMonthIndex))
  /\ lastEvent' = Event("tick", -1)
  /\ UNCHANGED <<sessInputs, gdpData, geometryVars, errorVars, spc, playerVars>>
  /\ UNCHANGED otherThanSess

\* the arguments of the calls from outside: the two nearest integers out of
\* range and the first index
CallArguments == {-1, 0, Len(availableYearMonths)}

\* a call of window.updateYearMonth(index) from outside
CallUpdateYearMonth ==
  /\ Controls
  /\ \E index \in CallArguments :
       /\ UpdateYearMonth(index)
       /\ lastEvent' = Event("call", index)
  /\ UNCHANGED <<sessInputs, gdpData, geometryVars, errorVars, spc, playerVars>>
  /\ UNCHANGED otherThanSess

NextSess ==
  \/ LoadData \/ LoadDataFails
  \/ LoadTopology \/ LoadTopologyWithoutCountries \/ LoadTopologyRejected
  \/ SliderInput \/ TogglePlay \/ PlayTick \/ CallUpdateYearMonth

-----------------------------------------------------------------------------
(* Specifications: one per component, the other components idle, and Spec,  *)
(* which starts in any one of them.                                          *)

IdleRenderer == IdleResolve /\ IdleRing /\ IdleSess
IdlePipeline == IdleParse /\ IdleProx /\ IdlePipe /\ IdleRank /\ IdleColor

StartParse == InitParse /\ IdleProx /\ IdlePipe /\ IdleRank /\ IdleColor /\ IdleRenderer
StartProx == IdleParse /\ InitProx /\ IdlePipe /\ IdleRank /\ IdleColor /\ IdleRenderer
StartPipe == IdleParse /\ IdleProx /\ InitPipe /\ IdleRank /\ IdleColor /\ IdleRenderer
StartRank == IdleParse /\ IdleProx /\ IdlePipe /\ InitRank /\ IdleColor /\ IdleRenderer
StartColor == IdleParse /\ IdleProx /\ IdlePipe /\ IdleRank /\ InitColor /\ IdleRenderer
StartResolve == IdlePipeline /\ InitResolve /\ IdleRing /\ IdleSess
StartRing == IdlePipeline /\ IdleResolve /\ InitRing /\ IdleSess
StartSess == IdlePipeline /\ IdleResolve /\ IdleRing /\ InitSess

SpecParse == StartParse /\ [][NextParse]_vars
SpecProx == StartProx /\ [][NextProx]_vars
SpecPipe == StartPipe /\ [][NextPipe]_vars
SpecRank == StartRank /\ [][NextRank]_vars
SpecColor == StartColor /\ [][NextColor]_vars
SpecResolve == StartResolve /\ [][NextResolve]_vars
SpecRing == StartRing /\ [][NextRing]_vars
SpecSess == StartSess /\ [][NextSess]_vars

Init ==
  \/ StartParse \/ StartProx \/ StartPipe \/ StartRank \/ StartColor
  \/ StartResolve \/ StartRing \/ StartSess

Next ==
  \/ NextParse \/ NextProx \/ NextPipe \/ NextRank \/ NextColor
  \/ NextResolve \/ NextRing \/ NextSess

Spec == Init /\ [][Next]_vars

-----------------------------------------------------------------------------
(* The claims.                                                               *)

FinitePoint(p) == IsFinite(p.latitude) /\ IsFinite(p.longitude)
Counted == count.t = "num"

\* C1: countWithinRadius(origin, points, radiusKm) is the number of entries of
\* points whose distanceKm to origin is <= radiusKm (the bound included); it
\* lies between 0 and points.length and is 0 for the empty list.
C1_CountIsNumberWithinRadius ==
  Counted =>
    LET inside == {i \in 1..Len(points) :
                     LessEq(distanceKm(origin, points[i]), radiusKm)}
    IN  /\ count.n = Cardinality(inside)
        /\ 0 <= count.n /\ count.n <= Len(points)
        /\ (points = <<>> => count.n = 0)

\* C1 witness: of two points, one lies at exactly the radius (100 km is not on
\* the grid, so the radius is 0 and the point is the origin) and is counted,
\* the other lies beyond it and is not.
C1_Witness ==
  /\ Counted /\ Len(points) = 2 /\ count.n = 1
  /\ FinitePoint(origin) /\ FinitePoint(points[1]) /\ FinitePoint(points[2])
  /\ distanceKm(origin, points[1]) = radiusKm
  /\ LessThan(radiusKm, distanceKm(origin, points[2]))

HasCounts == pc \in {"built", "rendered"}
NumberWithin(point, pts) ==
  Cardinality({j \in 1..Len(pts) : LessEq(distanceKm(point, pts[j]), Radius100)})

\* C2: every earthquake row of the unified dataset carries, in each of its four
\* ..._within_100km fields, the number of points of that one infrastructure
\* class within 100 km of the event, each class counted on its own points.
C2_CountsPerClass ==
  HasCounts =>
    \A i \in 1..Len(unified) :
      unified[i].dataset = "earthquake" =>
        LET point == toPoint(unified[i].latitude, unified[i].longitude)
        IN  /\ unified[i].airports_within_100km
                 = Num(NumberWithin(point, classPoints(cleanInfra, "airport")))
            /\ unified[i].ports_within_100km
                 = Num(NumberWithin(point, classPoints(cleanInfra, "port")))
            /\ unified[i].powerplants_within_100km
                 = Num(NumberWithin(point, classPoints(cleanInfra, "powerplant")))
            /\ unified[i].nuclear_plants_within_100km
                 = Num(NumberWithin(point, classPoints(cleanInfra, "nuclear_plant")))

\* C2 witness: an earthquake with one airport within 100 km and a port that
\* exists but is farther away, so the two classes get different counts.
C2_Witness ==
  /\ HasCounts
  /\ \E i \in 1..Len(unified) :
       /\ unified[i].dataset = "earthquake"
       /\ unified[i].airports_within_100km = Num(1)
       /\ unified[i].ports_within_100km = Num(0)
       /\ Len(classPoints(cleanInfra, "port")) = 1

FiniteWithin ==
  {i \in 1..Len(points) :
     /\ FinitePoint(origin) /\ FinitePoint(points[i])
     /\ LessEq(distanceKm(origin, points[i]), radiusKm)}
NonFiniteIsInfinitelyFar ==
  \A i \in 1..Len(points) :
    (~FinitePoint(origin) \/ ~FinitePoint(points[i]))
      => distanceKm(origin, points[i]) = PosInf

\* C3 as claimed: distanceKm is +Infinity when either point has a non-finite
\* coordinate, and such a point is never counted (nothing is, when the origin
\* is non-finite), for every value of radiusKm.
C3_NonFiniteNeverCounted ==
  Counted => NonFiniteIsInfinitelyFar /\ count.n = Cardinality(FiniteWithin)

\* C3 as amended: the same for every radiusKm other than +Infinity (a finite
\* radius, or NaN, for which nothing at all is counted).
C3_NonFiniteNeverCountedFiniteRadius ==
  Counted =>
    /\ NonFiniteIsInfinitelyFar
    /\ radiusKm # PosInf => count.n = Cardinality(FiniteWithin)

\* C3 witness: a finite radius, a point without finite coordinates beside one
\* that is within the radius, and only the latter counted.
C3_Witness ==
  /\ Counted /\ radiusKm = Radius100 /\ Len(points) = 2 /\ count.n = 1
  /\ FinitePoint(origin)
  /\ ~FinitePoint(points[1]) /\ FinitePoint(points[2])

IsNumeral(s) ==
  LET t == Trim(s)
      body == IF t # <<>> /\ Head(t) \in {"-", "+"} THEN Tail(t) ELSE t
  IN  AllDigits(body)
NumeralValue(s) ==
  LET t == Trim(s)
  IN  IF Head(t) = "-" THEN 0 - DecimalValue(Tail(t))
      ELSE IF Head(t) = "+" THEN DecimalValue(Tail(t))
      ELSE DecimalValue(t)
AbsentInput(v) == v \in {Null, Undefined} \/ (v.t = "str" /\ ~IsNumeral(v.s))
AbsentValue(fn) ==
  CASE fn = "main" -> Null
    [] fn = "build" -> NaN
    [] OTHER -> EmptyStr

\* C4: each of the three parsers maps the empty string, null, undefined and
\* text that is not a number to its absent value (null, NaN or ''), never to
\* 0, and maps the text of a number to that number.
C4_AbsentIsNeverZero ==
  pOut.fn \in {"main", "build", "clean"} =>
    /\ AbsentInput(pIn) => pOut.out = AbsentValue(pOut.fn) /\ pOut.out # Num(0)
    /\ (pIn.t = "str" /\ IsNumeral(pIn.s)) => pOut.out = Num(NumeralValue(pIn.s))

MissingCoordinates(raw) == ~IsNumeral(raw.latitude.s) \/ ~IsNumeral(raw.longitude.s)
RawOfRow(row) ==
  IF row.dataset = "earthquake"
  THEN {rawEq[j] : j \in {k \in 1..Len(rawEq) : EventId(k - 1) = row.record_id}}
  ELSE {rawInfra[j] : j \in {k \in 1..Len(rawInfra) : rawInfra[k].ident = row.record_id}}
AsUnifiedRow(dataset, raw) ==
  [dataset |-> dataset, record_id |-> EmptyStr, magnitude |-> Str(<<"6">>),
   latitude |-> raw.latitude, longitude |-> raw.longitude,
   airports_within_100km |-> EmptyStr, ports_within_100km |-> EmptyStr,
   powerplants_within_100km |-> EmptyStr, nuclear_plants_within_100km |-> EmptyStr]

\* C5: a record whose latitude or longitude is missing or unparseable is
\* never among the points countWithinRadius counts in buildUnifiedDataset, is
\* never emitted as an earthquake or infrastructure row, and parseRow returns
\* null for it.
C5_MissingCoordinatesExcluded ==
  HasCounts =>
    /\ \A c \in Classes :
         Len(classPoints(cleanInfra, c))
           = Cardinality({j \in 1..Len(rawInfra) :
                            rawInfra[j].class = c /\ ~MissingCoordinates(rawInfra[j])})
    /\ \A i \in 1..Len(unified) :
         \A raw \in RawOfRow(unified[i]) : ~MissingCoordinates(raw)
    /\ \A j \in 1..Len(rawInfra) :
         MissingCoordinates(rawInfra[j])
           => parseRow(AsUnifiedRow(rawInfra[j].class, rawInfra[j])) = NullRow
    /\ \A j \in 1..Len(rawEq) :
         MissingCoordinates(rawEq[j])
           => parseRow(AsUnifiedRow("earthquake", rawEq[j])) = NullRow

YearRows == {i \in 1..Len(gdpTotal) :
               gdpTotal[i].year = Num(layerYear) /\ gdpTotal[i].value.t = "num"}
YearValues == {gdpTotal[i].value.n : i \in YearRows}
NumberBelow(v) == Cardinality({i \in YearRows : gdpTotal[i].value.n < v})
NumberEqual(v) == Cardinality({i \in YearRows : gdpTotal[i].value.n = v})
RankIs(v, n, d) ==
  v \in DOMAIN gdpValueToRank /\ gdpValueToRank[v].n * d = n * gdpValueToRank[v].d

\* C6: the rank of every value of the year is the mean of the 0-based positions
\* of its occurrences in the ascending sort over n - 1 (0.5 when n = 1), n the
\* number of values of the year; for [10, 20, 20, 30] the ranks are 0, 0.5, 1.
C6_RankIsMeanPosition ==
  layerYear > 0 =>
    /\ \A v \in DOMAIN gdpValueToRank :
         IF Cardinality(YearRows) > 1
         THEN 2 * gdpValueToRank[v].n * (Cardinality(YearRows) - 1)
                = gdpValueToRank[v].d * (2 * NumberBelow(v) + NumberEqual(v) - 1)
         ELSE 2 * gdpValueToRank[v].n = gdpValueToRank[v].d
    /\ ( /\ Cardinality(YearRows) = 4 /\ YearValues = {10, 20, 30}
         /\ NumberEqual(20) = 2 )
         => RankIs(10, 0, 1) /\ RankIs(20, 1, 2) /\ RankIs(30, 1, 1)

\* C6 witness: the table of a year whose values are 10, 20, 20 and 30.
C6_Witness ==
  /\ layerYear = 2020 /\ Cardinality(YearRows) = 4
  /\ YearValues = {10, 20, 30} /\ NumberEqual(20) = 2
  /\ DOMAIN gdpValueToRank = {10, 20, 30}

\* C7: when the finite values of the year are all one value, in one record or
\* in several, the rank of that value is 0.5.
C7_SingleValueRankIsHalf ==
  layerYear > 0 =>
    (Cardinality(YearValues) = 1 => \A v \in YearValues : RankIs(v, 1, 2))

\* C7 witness: three records of the year, all with the value 20.
C7_Witness ==
  /\ layerYear = 2020 /\ Cardinality(YearRows) = 3 /\ YearValues = {20}
  /\ DOMAIN gdpValueToRank = {20}

\* C8: every rank of the table lies in [0, 1], and the keys of the table are
\* the finite values of the records of exactly the year asked for.
C8_RanksInUnitInterval ==
  layerYear > 0 =>
    /\ DOMAIN gdpValueToRank = YearValues
    /\ \A v \in DOMAIN gdpValueToRank :
         /\ gdpValueToRank[v].d > 0
         /\ 0 <= gdpValueToRank[v].n
         /\ gdpValueToRank[v].n <= gdpValueToRank[v].d

\* C8 witness: a table with the ranks 0 and 1, beside a record of another year
\* whose value is no key and a record of the year without a value.
C8_Witness ==
  /\ layerYear = 2020
  /\ \E v \in DOMAIN gdpValueToRank : gdpValueToRank[v].n = 0
  /\ \E v \in DOMAIN gdpValueToRank : gdpValueToRank[v].n = gdpValueToRank[v].d
  /\ 40 \notin DOMAIN gdpValueToRank
  /\ \E i \in 1..Len(gdpTotal) : gdpTotal[i] = GdpRow(2019, Num(40))
  /\ \E i \in 1..Len(gdpTotal) : gdpTotal[i] = GdpRow(2020, Null)

Coloured == colorOut # <<>> /\ colorOut # <<"idle">>

\* C9: getGdpColorByRank(0) is the first stop #ffffff, getGdpColorByRank(1) the
\* last stop #000051, and a null, undefined or non-finite rank gives #d1d5db.
C9_EndStopsAndNoData ==
  Coloured =>
    /\ (rankIn.t = "num" /\ rankIn.n = 0)
         => /\ colorOut = colorStops[1].color
            /\ colorOut = <<"#", "f", "f", "f", "f", "f", "f">>
    /\ (rankIn.t = "num" /\ rankIn.n = rankIn.d)
         => /\ colorOut = colorStops[Len(colorStops)].color
            /\ colorOut = <<"#", "0", "0", "0", "0", "5", "1">>
    /\ rankIn \in {Null, Undefined, NaN, PosInf, NegInf}
         => colorOut = <<"#", "d", "1", "d", "5", "d", "b">>

\* C9 witness: the colour of rank 0 has been computed.
C9_Witness == Coloured /\ rankIn.t = "num" /\ rankIn.n = 0 /\ colorOut = colorStops[1].color

Between(x, a, b) == (a <= x /\ x <= b) \/ (b <= x /\ x <= a)
\* |x * d - y| <= d / 2: x is an integer nearest to y / d
Nearest(x, y, d) == 2 * Abs(x * d - y) <= d
Clamped == clampRank(rankIn)
\* the channel x is the interpolation of c1 and c2 at the clamped rank between
\* the stops at positions p1 < p2 (hundredths), to the nearest integer
ChannelOk(x, c1, c2, p1, p2) ==
  /\ Between(x, c1, c2)
  /\ Nearest(x, c1 * (p2 - p1) * Clamped.d
                  + (c2 - c1) * (100 * Clamped.n - p1 * Clamped.d),
             (p2 - p1) * Clamped.d)

\* C10: a finite rank is clamped to [0, 1] (below 0 the first stop's colour,
\* above 1 the last's); the result is, for a pair of consecutive stops with
\* pos1 <= rank <= pos2, in each channel the linear interpolation of the two
\* stops by (rank - pos1) / (pos2 - pos1), so it lies between the two stops'
\* channels, and a rank at a stop's position gives that stop's colour.
C10_InterpolatesBetweenStops ==
  (Coloured /\ rankIn.t = "num") =>
    /\ rankIn.n < 0 => colorOut = colorStops[1].color
    /\ rankIn.n > rankIn.d => colorOut = colorStops[Len(colorStops)].color
    /\ \E i \in 1..(Len(colorStops) - 1) :
         LET s1 == colorStops[i]
             s2 == colorStops[i + 1]
             c1 == hexToRgb(s1.color)
             c2 == hexToRgb(s2.color)
             out == hexToRgb(colorOut)
         IN  /\ s1.pos * Clamped.d <= 100 * Clamped.n
             /\ 100 * Clamped.n <= s2.pos * Clamped.d
             /\ ChannelOk(out.r, c1.r, c2.r, s1.pos, s2.pos)
             /\ ChannelOk(out.g, c1.g, c2.g, s1.pos, s2.pos)
             /\ ChannelOk(out.b, c1.b, c2.b, s1.pos, s2.pos)
    /\ \A i \in 1..Len(colorStops) :
         100 * Clamped.n = colorStops[i].pos * Clamped.d
           => colorOut = colorStops[i].color

\* C10 witness: a rank strictly between two stops, coloured with a colour that
\* is neither of the gradient's stops.
C10_Witness ==
  /\ Coloured /\ rankIn.t = "num" /\ 0 < rankIn.n /\ rankIn.n < rankIn.d
  /\ \A i \in 1..Len(colorStops) :
       /\ 100 * rankIn.n # colorStops[i].pos * rankIn.d
       /\ colorOut # colorStops[i].color

-----------------------------------------------------------------------------
(* The country identity resolver.                                            *)

AliasTable == nameMaps.nameToCodeMap
Found == rpc = "found"

\* the spellings of the United States the dictionary knows, in several cases
\* and with surrounding blanks
UsaForms ==
  {Str(<<"U", "S", "A">>),
   Str(<<" ", "u", "s", "a", " ">>),
   Str(<<"U", "n", "i", "t", "e", "d", " ", "S", "t", "a", "t", "e", "s", " ", "o", "f", " ", "A", "m", "e", "r", "i", "c", "a">>),
   Str(<<"u", "n", "i", "t", "e", "d", " ", "s", "t", "a", "t", "e", "s">>),
   Str(<<"U", "N", "I", "T", "E", "D", " ", "S", "T", "A", "T", "E", "S", " ">>)}

\* C13: for every alias table, findCountryCode of "USA", of "United States of
\* America" and of "united states" give the same result (one code, or null for
\* all), whatever the letter case and the surrounding blanks of the name.
C13_UsaFormsAgree ==
  /\ \A a \in UsaForms :
       findCountryCode(a, AliasTable) = findCountryCode(Str(<<"U", "S", "A">>), AliasTable)
  /\ (Found /\ nameIn \in UsaForms) =>
       codeOut = findCountryCode(Str(<<"u", "n", "i", "t", "e", "d", " ", "s", "t", "a", "t", "e", "s">>), AliasTable)

C13_Witness ==
  /\ Found
  /\ nameIn = Str(<<" ", "u", "s", "a", " ">>)
  /\ codeOut = Str(<<"U", "S", "A">>)
  /\ findCountryCode(Str(<<"U", "n", "i", "t", "e", "d", " ", "S", "t", "a", "t", "e", "s", " ", "o", "f", " ", "A", "m", "e", "r", "i", "c", "a">>), AliasTable) = codeOut

\* the normal form of a name, stated apart from the code: lower case, no
\* surrounding blanks, then the canonical name of a form of the dictionary
NormalForm(text) ==
  LET t == Trim(toLowerCase(text))
  IN  IF \E i \in 1..Len(variations) : variations[i][1] = t
      THEN variations[CHOOSE i \in 1..Len(variations) : variations[i][1] = t][2]
      ELSE t
IsPart(part, text) ==
  \E i \in 1..(Len(text) + 1) : \E j \in (i - 1)..Len(text) : SubSeq(text, i, j) = part
ExactEntries(n) == {i \in 1..Len(AliasTable) : AliasTable[i].name = n}
RelatedEntries(n) ==
  {i \in 1..Len(AliasTable) : IsPart(AliasTable[i].name, n) \/ IsPart(n, AliasTable[i].name)}
HasName == nameIn.t = "str" /\ nameIn.s # <<>>

\* C14: findCountryCode returns the code of the entry whose name is exactly the
\* normalized name when there is one; only when there is none, the code of the
\* first entry, in insertion order, whose name is part of the normalized name
\* or has it as a part.
C14_ExactThenFirstRelated ==
  (Found /\ HasName) =>
    LET n == NormalForm(nameIn.s)
    IN  /\ \A i \in ExactEntries(n) : codeOut = Str(AliasTable[i].code)
        /\ ExactEntries(n) = {} =>
             \A i \in RelatedEntries(n) :
                (\A j \in RelatedEntries(n) : i <= j) => codeOut = Str(AliasTable[i].code)

C14_Witness ==
  /\ Found /\ HasName
  /\ \E i \in ExactEntries(NormalForm(nameIn.s)) :
       /\ codeOut = Str(AliasTable[i].code)
       /\ \E j \in RelatedEntries(NormalForm(nameIn.s)) :
            j < i /\ AliasTable[j].code # AliasTable[i].code

C14_WitnessFallback ==
  /\ Found /\ HasName
  /\ ExactEntries(NormalForm(nameIn.s)) = {}
  /\ Cardinality(RelatedEntries(NormalForm(nameIn.s))) > 1
  /\ codeOut # Null

\* the GDP records in the order they are registered, and those with a name
\* and a code
AllRecords == recTotal \o recPerCapita
Eligible == {k \in 1..Len(AllRecords) :
               AllRecords[k].country.s # <<>> /\ AllRecords[k].country_code.s # <<>>}
RecordsNamed(n) == {k \in Eligible : NormalForm(AllRecords[k].country.s) = n}

\* C15: buildCountryNameToCodeMap has one entry for the normalized name of
\* every GDP record with a name and a code (the aggregate series first, then
\* the per-capita series) and no other, and the code of an entry is the code of
\* the first such record of that name: no later record overwrites it.
C15_FirstSeenWins ==
  rpc \in {"built", "found"} =>
    /\ {AliasTable[i].name : i \in 1..Len(AliasTable)}
         = {NormalForm(AllRecords[k].country.s) : k \in Eligible}
    /\ \A i \in 1..Len(AliasTable) : \A j \in 1..Len(AliasTable) :
         AliasTable[i].name = AliasTable[j].name => i = j
    /\ \A i \in 1..Len(AliasTable) :
         \A k \in RecordsNamed(AliasTable[i].name) :
            (\A m \in RecordsNamed(AliasTable[i].name) : k <= m)
              => AliasTable[i].code = AllRecords[k].country_code.s

C15_Witness ==
  /\ rpc = "built"
  /\ \E i \in 1..Len(AliasTable) :
       \E k \in RecordsNamed(AliasTable[i].name) :
          /\ k > Len(recTotal)
          /\ AllRecords[k].country_code.s # AliasTable[i].code
          /\ AliasTable[i].code = AllRecords[1].country_code.s

\* C16: findCountryCode returns null for a missing or empty name and for a name
\* with no exact entry and no entry related to it by containment; a value that
\* is not null is a code of the alias table.
C16_NullOrStoredCode ==
  Found =>
    /\ ~HasName => codeOut = Null
    /\ (HasName /\ ExactEntries(NormalForm(nameIn.s)) = {}
                /\ RelatedEntries(NormalForm(nameIn.s)) = {}) => codeOut = Null
    /\ codeOut # Null =>
         /\ codeOut.t = "str"
         /\ \E i \in 1..Len(AliasTable) : AliasTable[i].code = codeOut.s

C16_Witness ==
  /\ Found /\ HasName
  /\ Len(AliasTable) > 1
  /\ codeOut = Null

-----------------------------------------------------------------------------
(* The antimeridian normalizer.                                              *)

Normalized == npc = "normalized"

\* the rings of the feature with their places: <<polygon, ring>> (polygon 0
\* for a Polygon), and the ring at a place before and after
RingPlaces ==
  IF geomIn.type = "Polygon" THEN {<<0, r>> : r \in 1..Len(geomIn.coordinates)}
  ELSE IF geomIn.type = "MultiPolygon"
  THEN UNION {{<<p, r>> : r \in 1..Len(geomIn.coordinates[p])} :
                p \in 1..Len(geomIn.coordinates)}
  ELSE {}
RingAt(geometry, place) ==
  IF place[1] = 0 THEN geometry.coordinates[place[2]]
  ELSE geometry.coordinates[place[1]][place[2]]

LonsOf(ring) == {ring[i][1] : i \in 1..Len(ring)}
Crossing(ring) ==
  /\ \E l \in LonsOf(ring) : l < -100
  /\ \E l \in LonsOf(ring) : l > 100
  /\ \E lo \in LonsOf(ring) : \E hi \in LonsOf(ring) : hi - lo > 180
SameLength(place) == Len(RingAt(geomOut, place)) = Len(RingAt(geomIn, place))

\* C17: a ring is treated as dateline-crossing exactly when it has a longitude
\* below -100, one above +100 and a span above 180: then every negative
\* longitude is moved by +360 and a value above 180 becomes 180, so that every
\* longitude that was not below -360 ends in [0, 180] ([-170, 170, -175] gives
\* [180, 170, 180]); a ring that is not crossing keeps its longitudes of
\* [-180, 0).
C17_CrossingShiftedAndClamped ==
  /\ normalizeRing(CrossingRing) = <<<<180, -17>>, <<170, 17>>, <<180, -18>>>>
  /\ Normalized =>
       \A place \in RingPlaces :
          /\ SameLength(place)
          /\ \A i \in 1..Len(RingAt(geomIn, place)) :
               LET lon == RingAt(geomIn, place)[i][1]
                   out == RingAt(geomOut, place)[i][1]
                   moved == IF lon < 0 THEN lon + 360 ELSE lon
               IN  IF Crossing(RingAt(geomIn, place))
                   THEN /\ out = (IF moved > 180 THEN 180 ELSE moved)
                        /\ lon >= -360 => (out >= 0 /\ out <= 180)
                   ELSE (lon >= -180 /\ lon < 0) => out = lon

C17_Witness ==
  /\ Normalized
  /\ geomIn.type = "Polygon"
  /\ geomIn.coordinates[1] = CrossingRing
  /\ geomOut.coordinates[1] = <<<<180, -17>>, <<170, 17>>, <<180, -18>>>>

\* C18: in a ring that is not dateline-crossing every longitude becomes the
\* value of [-180, 180] that differs from it by a multiple of 360: a longitude
\* of [-180, 180] stays, 190 becomes -170.
C18_NonCrossingWrapped ==
  /\ normalizeRing(OverflowRing) = <<<<10, 1>>, <<20, 2>>, <<-170, 19>>>>
  /\ Normalized =>
       \A place \in RingPlaces :
          ~Crossing(RingAt(geomIn, place)) =>
             /\ SameLength(place)
             /\ \A i \in 1..Len(RingAt(geomIn, place)) :
                  LET lon == RingAt(geomIn, place)[i][1]
                      out == RingAt(geomOut, place)[i][1]
                  IN  /\ out >= -180 /\ out <= 180
                      /\ (out - lon) % 360 = 0
                      /\ (lon >= -180 /\ lon <= 180) => out = lon

C18_Witness ==
  /\ Normalized
  /\ geomIn.type = "Polygon"
  /\ ~Crossing(geomIn.coordinates[1])
  /\ \E i \in 1..Len(geomIn.coordinates[1]) :
       geomIn.coordinates[1][i][1] = 550 /\ geomOut.coordinates[1][i][1] = -170
  /\ \E i \in 1..Len(geomIn.coordinates[1]) :
       geomIn.coordinates[1][i][1] = 190 /\ geomOut.coordinates[1][i][1] = -170

AlreadyNormalized(ring) == \A l \in LonsOf(ring) : l >= -180 /\ l <= 180

\* C19: a ring with all its longitudes in [-180, 180] that is not
\* dateline-crossing is returned equal to itself, and so is the result when it
\* is normalized again.
C19_NormalizedRingUnchanged ==
  Normalized =>
    \A place \in RingPlaces :
       (AlreadyNormalized(RingAt(geomIn, place)) /\ ~Crossing(RingAt(geomIn, place))) =>
          /\ RingAt(geomOut, place) = RingAt(geomIn, place)
          /\ normalizeRing(RingAt(geomOut, place)) = RingAt(geomIn, place)
          /\ normalizeRing(normalizeRing(RingAt(geomOut, place))) = RingAt(geomIn, place)

C19_Witness ==
  /\ Normalized
  /\ geomIn.type = "Polygon"
  /\ Len(geomIn.coordinates[1]) = MaxRingLen
  /\ AlreadyNormalized(geomIn.coordinates[1]) /\ ~Crossing(geomIn.coordinates[1])
  /\ \E l \in LonsOf(geomIn.coordinates[1]) : l < -100
  /\ geomOut.coordinates[1] = geomIn.coordinates[1]

\* C20: normalization changes longitudes only: the geometry keeps its type, its
\* number of polygons, the number of rings of each polygon, the number of
\* points of each ring, and the latitude of each point in its place.
C20_OnlyLongitudesChange ==
  Normalized =>
    /\ geomOut.type = geomIn.type
    /\ Len(geomOut.coordinates) = Len(geomIn.coordinates)
    /\ geomIn.type = "MultiPolygon" =>
         \A p \in 1..Len(geomIn.coordinates) :
            Len(geomOut.coordinates[p]) = Len(geomIn.coordinates[p])
    /\ \A place \in RingPlaces :
         /\ SameLength(place)
         /\ \A i \in 1..Len(RingAt(geomIn, place)) :
              /\ Len(RingAt(geomOut, place)[i]) = 2
              /\ RingAt(geomOut, place)[i][2] = RingAt(geomIn, place)[i][2]
    /\ geomIn.type \notin {"Polygon", "MultiPolygon"} => geomOut = geomIn

C20_Witness ==
  /\ Normalized
  /\ geomIn.type = "MultiPolygon"
  /\ Len(geomIn.coordinates[1][1]) = MaxRingLen
  /\ \A i \in 1..MaxRingLen : geomOut.coordinates[1][1][i][1] # geomIn.coordinates[1][1][i][1]
  /\ \A i \in 1..MaxRingLen : geomOut.coordinates[1][1][i][2] = geomIn.coordinates[1][1][i][2]
  /\ geomOut.coordinates[2][1] # geomIn.coordinates[2][1]

-----------------------------------------------------------------------------
(* The renderer session.                                                     *)

Installed == spc = "map"
SelectedYear == YearSeq[(currentYearMonthIndex \div MonthsPerYear) + 1]

\* the GDP rows and the gdpData entries of one year
RowsOfYear(rows, year) == SelectSeq(rows, LAMBDA r : r.year = Num(year))
KeyOfYear(key, year) ==
  /\ Len(key) > Len(NatToText(year))
  /\ SubSeq(key, Len(key) - Len(NatToText(year)), Len(key)) = <<"_">> \o NatToText(year)
DataOfYear(year) ==
  [k \in {key \in DOMAIN gdpData : KeyOfYear(key, year)} |-> gdpData[k]]

LayerOfSelectedYear ==
  Installed =>
    /\ gdpLayer.year = SelectedYear
    /\ gdpLayer = updateGdpLayer(SelectedYear, RowsOfYear(sTotal, SelectedYear),
                                 DataOfYear(SelectedYear), sessMaps.nameToCodeMap, countries)

YearChangeStep ==
  (Installed /\ SelectedYear' # SelectedYear) =>
    /\ gdpLayer'.year = SelectedYear'
    /\ gdpLayer' # gdpLayer
    /\ countries' = countries
    /\ normalizeRuns' = normalizeRuns
    /\ sessMaps' = sessMaps
    /\ UNCHANGED <<proxVars, pipeVars, ringVars>>

\* C11: once the GDP layer is installed, the layer is always the one of the
\* selected year, computed from that year's rows and entries alone (rank table
\* and style of every feature), and a step that changes the selected year
\* (slider, play tick, window.updateYearMonth) replaces the layer and leaves the
\* normalized features, the alias table and the proximity counts as they were.
C11_YearChangeRerunsRanking == [](LayerOfSelectedYear) /\ [][YearChangeStep]_vars

C11_Witness ==
  /\ Installed /\ isPlaying
  /\ SelectedYear = 2019 /\ gdpLayer.year = 2019
  /\ DOMAIN gdpLayer.gdpValueToRank # {}
  /\ \E i \in 1..Len(gdpLayer.styles) : gdpLayer.styles[i].fillOpacity = HighOpacity
  /\ \E k \in 1..Len(sTotal) : sTotal[k].year = Num(2020) /\ sTotal[k].value # Null
  /\ normalizeRuns = 1

\* the record of GDP totals of a country code and year: the last such row
TotalRowsOf(code, year) ==
  {k \in 1..Len(sTotal) : sTotal[k].country_code = code /\ sTotal[k].year = Num(year)}
ValueFound(code, year) ==
  /\ code # Null
  /\ TotalRowsOf(code, year) # {}
  /\ \A k \in TotalRowsOf(code, year) :
       (\A m \in TotalRowsOf(code, year) : m <= k) => sTotal[k].value.t = "num"

\* C12: the style of every feature has fillOpacity 0.95 exactly when a GDP value
\* was found for the country code the feature's name resolves to and the year of
\* the layer, and 0.2 in every other case (name not resolved, no record for the
\* country and year, a record without a total value).
C12_OpacityIffValueFound ==
  Installed =>
    /\ Len(gdpLayer.styles) = Len(gdpLayer.features)
    /\ \A i \in 1..Len(gdpLayer.features) :
         LET code == findCountryCode(getCountryName(gdpLayer.features[i].properties),
                                     sessMaps.nameToCodeMap)
         IN  gdpLayer.styles[i].fillOpacity =
               IF ValueFound(code, gdpLayer.year) THEN HighOpacity ELSE LowOpacity

\* the case in which the style departs from C12: the only entry of gdpData for
\* the country and year comes from the per-capita series
PerCapitaOnly(code, year) ==
  /\ code # Null
  /\ TotalRowsOf(code, year) = {}
  /\ \E k \in 1..Len(sPerCapita) :
       sPerCapita[k].country_code = code /\ sPerCapita[k].year = Num(year)

C12_OpacityExceptPerCapitaOnly ==
  Installed =>
    \A i \in 1..Len(gdpLayer.features) :
       LET code == findCountryCode(getCountryName(gdpLayer.features[i].properties),
                                   sessMaps.nameToCodeMap)
       IN  gdpLayer.styles[i].fillOpacity =
             IF ValueFound(code, gdpLayer.year) \/ PerCapitaOnly(code, gdpLayer.year)
             THEN HighOpacity ELSE LowOpacity

-----------------------------------------------------------------------------
(* Claims about the monotonicity of countWithinRadius.                       *)

\* C24: countWithinRadius is monotonically non-decreasing in radiusKm: for the
\* same origin and points, a radius r with radiusKm <= r gives a count that is
\* at least the count of radiusKm, and a radius r <= radiusKm gives a count
\* that is at most it (<= being the comparison of numbers of the language,
\* false whenever a side is NaN).
C24_CountMonotoneInRadius ==
  Counted =>
    \A r \in Radii :
      /\ LessEq(radiusKm, r) => count.n <= countWithinRadius(origin, points, r)
      /\ LessEq(r, radiusKm) => countWithinRadius(origin, points, r) <= count.n

\* C24 witness: a count of one point that a larger radius raises to two.
C24_Witness ==
  /\ Counted /\ Len(points) = 2 /\ count.n = 1
  /\ \E r \in Radii :
       /\ LessThan(radiusKm, r)
       /\ countWithinRadius(origin, points, r) = 2

-----------------------------------------------------------------------------
(* Claims about the two magnitude filters of the pipeline.                   *)

EarthquakeRows(rows) ==
  {i \in 1..Len(rows) : rows[i].dataset = "earthquake"}

\* C30: the two magnitude filters agree: every earthquake record that the
\* cleaning stage keeps and buildUnifiedDataset emits is accepted by the
\* renderer's parseRow, so the rendered rows hold as many earthquakes as the
\* unified dataset and no row of the unified file is parsed to null.
C30_MagnitudeFiltersAgree ==
  pc = "rendered" =>
    /\ \A i \in EarthquakeRows(unifiedCsv) : parseRow(unifiedCsv[i]) # NullRow
    /\ Cardinality(EarthquakeRows(parsedRows))
         = Cardinality(EarthquakeRows(unified))

-----------------------------------------------------------------------------
(* Claims about normalizing a ring twice.                                    *)

Idempotent(ring) == normalizeRing(normalizeRing(ring)) = normalizeRing(ring)

\* C29 as stated: normalizeRing is idempotent on every ring: for every ring of
\* the feature, rings with longitudes beyond +/-180 included, normalizing the
\* normalized ring again returns it unchanged.
C29_IdempotentOnEveryRing ==
  Normalized =>
    \A place \in RingPlaces :
       normalizeRing(RingAt(geomOut, place)) = RingAt(geomOut, place)

\* C29 as amended: normalizing again returns the normalized ring unchanged
\* whenever that normalized ring is not itself dateline-crossing; the ring
\* [170, 190] is not covered: it is wrapped to [170, -170], which is
\* dateline-crossing and becomes [170, 180] when normalized again.
C29_IdempotentUnlessOutputCrossing ==
  /\ normalizeRing(<<<<170, 17>>, <<190, 19>>>>) = <<<<170, 17>>, <<-170, 19>>>>
  /\ normalizeRing(<<<<170, 17>>, <<-170, 19>>>>) = <<<<170, 17>>, <<180, 19>>>>
  /\ Normalized =>
       \A place \in RingPlaces :
          ~Crossing(RingAt(geomOut, place)) =>
             normalizeRing(RingAt(geomOut, place)) = RingAt(geomOut, place)

\* C29 witness: a dateline-crossing ring and a ring with a longitude beyond 180
\* that were both changed, and whose results are not changed again.
C29_Witness ==
  /\ Normalized
  /\ geomIn.type = "Polygon" /\ Len(geomIn.coordinates) = 2
  /\ Crossing(geomIn.coordinates[1])
  /\ geomOut.coordinates[1] # geomIn.coordinates[1]
  /\ geomOut.coordinates[2] # geomIn.coordinates[2]
  /\ ~Crossing(geomOut.coordinates[1]) /\ ~Crossing(geomOut.coordinates[2])
  /\ Idempotent(geomIn.coordinates[1]) /\ Idempotent(geomIn.coordinates[2])

-----------------------------------------------------------------------------
(* Claims about the geometry stage of the session.                           *)

\* the topology's feature i and the feature i of countries (Antarctica is the
\* last feature of the topology): every ring of a Polygon or MultiPolygon is
\* the topology's ring normalized once, any other geometry is as it was
RingsNormalizedOnce(i) ==
  LET before == TopologyFeatures[i].geometry
      after == countries[i].geometry
  IN  /\ countries[i].properties = TopologyFeatures[i].properties
      /\ after.type = before.type
      /\ Len(after.coordinates) = Len(before.coordinates)
      /\ IF before.type = "Polygon"
         THEN \A r \in 1..Len(before.coordinates) :
                after.coordinates[r] = normalizeRing(before.coordinates[r])
         ELSE IF before.type = "MultiPolygon"
         THEN \A q \in 1..Len(before.coordinates) :
                /\ Len(after.coordinates[q]) = Len(before.coordinates[q])
                /\ \A r \in 1..Len(before.coordinates[q]) :
                     after.coordinates[q][r] = normalizeRing(before.coordinates[q][r])
         ELSE after = before

InLayer(feature) ==
  \E k \in 1..Len(gdpLayer.features) : gdpLayer.features[k] = feature

\* C21: the rings of the Polygon and MultiPolygon features are normalized in
\* one pass when the geometry is loaded: before that pass there is no GDP layer
\* (no rank table, no style), the pass never runs again, and whenever a GDP
\* layer exists, after the load and after every later updateGdpLayer call,
\* each ring of countries is the topology's ring normalized exactly once and
\* the features of the layer are features of countries.
C21_NormalizedOnceBeforeFirstLayer ==
  /\ normalizeRuns <= 1
  /\ normalizeRuns = 0 => (gdpLayer = NoLayer /\ countries = <<>>)
  /\ gdpLayer # NoLayer =>
       /\ normalizeRuns = 1
       /\ Len(countries) = Len(TopologyFeatures) - 1
       /\ \A i \in 1..Len(countries) : RingsNormalizedOnce(i)
       /\ \A k \in 1..Len(gdpLayer.features) :
            \E i \in 1..Len(countries) : gdpLayer.features[k] = countries[i]

\* C21 witness: a later updateGdpLayer call (a slider input to a month of 2019)
\* has rebuilt the layer from features whose rings the load has changed.
C21_Witness ==
  /\ Installed /\ lastEvent.kind = "slider" /\ gdpLayer.year = 2019
  /\ normalizeRuns = 1
  /\ countries[1].geometry.type = "MultiPolygon"
  /\ countries[1].geometry # TopologyFeatures[1].geometry
  /\ InLayer(countries[1])

\* the longitudes of a geometry, ring by ring
LonsOfGeometry(geometry) ==
  IF geometry.type = "Polygon"
  THEN UNION {LonsOf(geometry.coordinates[r]) : r \in 1..Len(geometry.coordinates)}
  ELSE IF geometry.type = "MultiPolygon"
  THEN UNION {UNION {LonsOf(geometry.coordinates[q][r]) :
                       r \in 1..Len(geometry.coordinates[q])} :
                q \in 1..Len(geometry.coordinates)}
  ELSE {}

Renderable(feature) ==
  /\ feature.geometry # NoGeometry
  /\ \A lon \in LonsOfGeometry(feature.geometry) : lon >= -180 /\ lon <= 180

C23_MissingCountriesShownToUser ==
  (topology = "noCountries" /\ spc = "nomap") =>
    /\ consoleErrors # {}
    /\ mapError
    /\ gdpLayer = NoLayer /\ ~Installed /\ normalizeRuns = 0
    /\ shownYearMonth = availableYearMonths[currentYearMonthIndex + 1]

-----------------------------------------------------------------------------
(* Claims about the selected year-month and the playback.                    *)

SelectedYearMonth == availableYearMonths[currentYearMonthIndex + 1]

\* C25: in every state between two handlers, whatever the order of the
\* geometry load, the slider inputs and the play ticks, the earthquake layer
\* shows the selected year-month, and a GDP layer that exists was built for
\* the year of the selected year-month.
C25_LayersOfSelectedYearMonth ==
  Controls =>
    /\ shownYearMonth = SelectedYearMonth
    /\ gdpLayer # NoLayer => gdpLayer.year = yearOfKey(SelectedYearMonth)

\* C25 witness: the geometry load completes while the playback started before
\* it is running; the layer it installs is the one of the selected year-month.
C25_Witness ==
  /\ Installed /\ lastEvent.kind = "topology" /\ isPlaying
  /\ gdpLayer # NoLayer
  /\ gdpLayer.year = yearOfKey(SelectedYearMonth)
  /\ shownYearMonth = defaultYearMonth

\* C26: isPlaying is true exactly when playInterval is non-null, the timer of
\* playInterval is the only active interval timer, and no timer is active
\* when playInterval is null.
C26_PlayingIffOneTimer ==
  /\ isPlaying <=> playInterval # 0
  /\ Cardinality(activeTimers) <= 1
  /\ activeTimers = (IF playInterval # 0 THEN {playInterval} ELSE {})

\* C26 witness: the playback is running on its one timer, whose tick has
\* taken the index from the last one to 0.
C26_Witness ==
  /\ isPlaying /\ Cardinality(activeTimers) = 1 /\ playInterval \in activeTimers
  /\ lastEvent.kind = "tick"
  /\ currentYearMonthIndex = 0

InRange(index) == index >= 0 /\ index <= Len(availableYearMonths) - 1

TickStep ==
  lastEvent'.kind = "tick" =>
    currentYearMonthIndex' =
      (IF currentYearMonthIndex = Len(availableYearMonths) - 1 THEN 0
       ELSE currentYearMonthIndex + 1)

OutOfRangeCallStep ==
  (lastEvent'.kind = "call" /\ ~InRange(lastEvent'.index)) =>
    UNCHANGED <<currentYearMonthIndex, gdpLayer, shownYearMonth>>

\* C27: once the controls exist, currentYearMonthIndex is always one of
\* 0..availableYearMonths.length-1; a play tick moves it from i to i+1 and from
\* the last index to 0; a call of updateYearMonth with an index out of range
\* changes neither the index nor the GDP layer nor the year-month shown.
C27_IndexInRangeAndTickWraps ==
  /\ [](Controls => InRange(currentYearMonthIndex))
  /\ [][TickStep]_vars
  /\ [][OutOfRangeCallStep]_vars

\* C27 witness: a tick has taken the index from the last one to 0.
C27_Witness ==
  /\ Installed /\ lastEvent.kind = "tick" /\ currentYearMonthIndex = 0
  /\ gdpLayer.year = 2019

AfterSliderInput ==
  lastEvent.kind = "slider" =>
    /\ ~isPlaying /\ playInterval = 0 /\ activeTimers = {}
    /\ currentYearMonthIndex = lastEvent.index

HeldAfterSliderInput ==
  (lastEvent.kind = "slider" /\ lastEvent'.kind \notin {"slider", "call"}) =>
    currentYearMonthIndex' = currentYearMonthIndex

\* C28: after the slider's input handler isPlaying is false, no timer is active
\* and the selected index is the slider's value, and the next handler that is
\* neither a slider input nor the play button (whose click changes no index)
\* nor an explicit call of window.updateYearMonth leaves the index as it is.
C28_SliderInputHoldsIndex ==
  /\ [](AfterSliderInput)
  /\ [][HeldAfterSliderInput]_vars

====
